---- MODULE Spec2Model ----
(***************************************************************************)
(* Draft Punk: the draft reconciler (SleeperService), the name matcher and *)
(* the session controller (App) that merges polled picks into the user's   *)
(* ranking rows.                                                           *)
(*                                                                         *)
(* JavaScript strings that the code inspects character by character        *)
(* (names, positions, CSV cells) are sequences of one-character strings;   *)
(* opaque identifiers (draft ids, user ids, timer ids) are TLA+ strings.   *)
(* "null" stands for JavaScript's null.                                    *)
(***************************************************************************)
EXTENDS Integers, Sequences, FiniteSets, TLC

VARIABLES
    svc,            \* the SleeperService instance's private fields
    timers,         \* the window's active interval timers: [id, ms]
    inflight,       \* fetches awaiting their response, in start order
    rankings,       \* App state: RankingRow[]
    fileName,       \* App state
    storedCSVs,     \* App state: StoredCSV[]
    selectedCSVId,  \* App state
    syncStatus,     \* App state: SyncStatus
    draftPicks,     \* App state: DraftPick[]
    lastLog,        \* App state: logs[0], the newest entry of the log panel
    lastOp,         \* history: the last operation and the timer it found
    lineup,         \* a lineup optimizer's arguments and what it returned
    player,         \* one player's projection inputs and the projected value
    standings,      \* the rosters given to the draft-order ranking and its result
    rtm,            \* the RTM cache in localStorage, the clock, the pending calls
    fetchHistory,   \* history of the answered fetches, kept by SpecOrder's steps
    nameKey         \* a name given to normalizeName and what it returned

appVars == <<svc, timers, inflight, rankings, fileName, storedCSVs, selectedCSVId,
             syncStatus, draftPicks, lastLog, lastOp>>

engineVars == <<lineup, player, standings, rtm>>

vars == <<svc, timers, inflight, rankings, fileName, storedCSVs, selectedCSVId,
          syncStatus, draftPicks, lastLog, lastOp, lineup, player, standings, rtm,
          fetchHistory, nameKey>>

Null == "null"

\* the Standings tab has computed nothing
Idle == [fn |-> "none"]

\* no fetch has been answered
noHistory ==
    [started |-> <<>>, draftId |-> Null, rookiePickMode |-> FALSE, leagueSize |-> 0,
     overtaken |-> 0, late |-> FALSE]

(***************************************************************************)
(* Character-level string primitives: the String.prototype methods used   *)
(***************************************************************************)
UpperChars == <<"A","B","C","D","E","F","G","H","I","J","K","L","M",
                "N","O","P","Q","R","S","T","U","V","W","X","Y","Z">>

LowerChars == <<"a","b","c","d","e","f","g","h","i","j","k","l","m",
                "n","o","p","q","r","s","t","u","v","w","x","y","z">>

DigitChars == <<"0","1","2","3","4","5","6","7","8","9">>

WhiteSpace == {" ", "\t"}

Range(f) == {f[i] : i \in DOMAIN f}

\* the characters that /[^a-z0-9\s]/ does not match
KeptChars == Range(LowerChars) \cup Range(DigitChars) \cup WhiteSpace

toLowerCase(s) ==
    [i \in 1..Len(s) |->
        IF \E k \in DOMAIN UpperChars : UpperChars[k] = s[i]
        THEN LowerChars[CHOOSE k \in DOMAIN UpperChars : UpperChars[k] = s[i]]
        ELSE s[i]]

toUpperCase(s) ==
    [i \in 1..Len(s) |->
        IF \E k \in DOMAIN LowerChars : LowerChars[k] = s[i]
        THEN UpperChars[CHOOSE k \in DOMAIN LowerChars : LowerChars[k] = s[i]]
        ELSE s[i]]

RECURSIVE trimStart(_)
trimStart(s) ==
    IF s # <<>> /\ Head(s) \in WhiteSpace THEN trimStart(Tail(s)) ELSE s

RECURSIVE trimEnd(_)
trimEnd(s) ==
    IF s # <<>> /\ s[Len(s)] \in WhiteSpace
    THEN trimEnd(SubSeq(s, 1, Len(s) - 1))
    ELSE s

trim(s) == trimEnd(trimStart(s))

\* .replace(/[^a-z0-9\s]/g, ' ')
replacePunctuation(s) ==
    [i \in 1..Len(s) |->
        IF s[i] \in KeptChars
        THEN s[i]
        ELSE " "]

\* .replace(/\s+/g, ' ')
RECURSIVE collapseSpaces(_)
collapseSpaces(s) ==
    IF s = <<>> THEN <<>>
    ELSE IF Head(s) \in WhiteSpace
         THEN <<" ">> \o collapseSpaces(trimStart(s))
         ELSE <<Head(s)>> \o collapseSpaces(Tail(s))

\* s.split(' '): the pieces between single spaces, empty pieces included
RECURSIVE splitFrom(_, _)
splitFrom(s, word) ==
    IF s = <<>> THEN <<word>>
    ELSE IF Head(s) = " "
         THEN <<word>> \o splitFrom(Tail(s), <<>>)
         ELSE splitFrom(Tail(s), Append(word, Head(s)))

split(s) == splitFrom(s, <<>>)

\* words.join(' ')
RECURSIVE join(_)
join(words) ==
    IF words = <<>> THEN <<>>
    ELSE IF Len(words) = 1 THEN words[1]
         ELSE words[1] \o <<" ">> \o join(Tail(words))

\* `${n}` for an integer n
RECURSIVE digitsOf(_)
digitsOf(n) ==
    IF n < 10 THEN <<DigitChars[n + 1]>>
    ELSE digitsOf(n \div 10) \o <<DigitChars[(n % 10) + 1]>>

numberToString(n) == IF n < 0 THEN <<"-">> \o digitsOf(-n) ELSE digitsOf(n)

\* s.padStart(2, '0')
padStart2(s) ==
    IF Len(s) >= 2 THEN s
    ELSE IF Len(s) = 1 THEN <<"0">> \o s
         ELSE <<"0", "0">>

\* Math.ceil(a / b) for an integer a and b > 0 (ceil of a negative fraction is -0,
\* which prints as "0")
ceilDiv(a, b) == -((-a) \div b)

\* JavaScript's a % b for b > 0: the remainder takes the sign of the dividend
jsRem(a, b) == IF a >= 0 THEN a % b ELSE -((-a) % b)

(***************************************************************************)
(* utils/normalizeName.ts                                                  *)
(***************************************************************************)
suffixes == {<<"j","r">>, <<"s","r">>, <<"i","i">>, <<"i","i","i">>,
             <<"i","v">>, <<"v">>}

\* normalizeName without the removal of a suffix
normalizeNameKeepingSuffix(name) ==
    IF name = <<>> THEN <<>>
    ELSE trim(collapseSpaces(replacePunctuation(trim(toLowerCase(name)))))

normalizeName(name) ==
    IF name = <<>> THEN <<>>
    ELSE LET normalized == trim(collapseSpaces(replacePunctuation(trim(toLowerCase(name)))))
             words == split(normalized)
             lastWord == words[Len(words)]
         IN  IF lastWord \in suffixes
             THEN trim(join(SubSeq(words, 1, Len(words) - 1)))
             ELSE normalized

(***************************************************************************)
(* data/aliases.ts: each entry is <<variant, replacement>>                 *)
(***************************************************************************)
nameAliases == <<
    <<<<"d"," ","k"," ","m","e","t","c","a","l","f">>,
      <<"d","k"," ","m","e","t","c","a","l","f">>>>,
    <<<<"d","a","k"," ","m","e","t","c","a","l","f">>,
      <<"d","k"," ","m","e","t","c","a","l","f">>>>,
    <<<<"g","a","b","e"," ","d","a","v","i","s">>,
      <<"g","a","b","r","i","e","l"," ","d","a","v","i","s">>>>,
    <<<<"k","e","n"," ","w","a","l","k","e","r">>,
      <<"k","e","n","n","e","t","h"," ","w","a","l","k","e","r">>>>,
    <<<<"k","e","n","n","y"," ","w","a","l","k","e","r">>,
      <<"k","e","n","n","e","t","h"," ","w","a","l","k","e","r">>>>,
    <<<<"a","j"," ","b","r","o","w","n">>,
      <<"a"," ","j"," ","b","r","o","w","n">>>>,
    <<<<"a"," ","j"," ","b","r","o","w","n">>,
      <<"a","j"," ","b","r","o","w","n">>>>,
    <<<<"c","j"," ","s","t","r","o","u","d">>,
      <<"c"," ","j"," ","s","t","r","o","u","d">>>>,
    <<<<"c"," ","j"," ","s","t","r","o","u","d">>,
      <<"c","j"," ","s","t","r","o","u","d">>>>,
    <<<<"d","k"," ","m","e","t","c","a","l","f">>,
      <<"d"," ","k"," ","m","e","t","c","a","l","f">>>>,
    <<<<"b","r","i","a","n"," ","r","o","b","i","n","s","o","n">>,
      <<"b","r","i","a","n"," ","r","o","b","i","n","s","o","n">>>>,
    <<<<"b","r","o","b">>,
      <<"b","r","i","a","n"," ","r","o","b","i","n","s","o","n">>>>,
    <<<<"b","i","j","a","n">>,
      <<"b","i","j","a","n"," ","r","o","b","i","n","s","o","n">>>>,
    <<<<"b","r","e","e","c","e">>,
      <<"b","r","e","e","c","e"," ","h","a","l","l">>>>,
    <<<<"a","m","o","n"," ","r","a"," ","s","t"," ","b","r","o","w","n">>,
      <<"a","m","o","n","r","a"," ","s","t"," ","b","r","o","w","n">>>>,
    <<<<"a","m","o","n"," ","r","a"," ","s","t","b","r","o","w","n">>,
      <<"a","m","o","n","r","a"," ","s","t"," ","b","r","o","w","n">>>>,
    <<<<"d","e","v","o","n","t","a"," ","s","m","i","t","h">>,
      <<"d","e","v","o","n","t","a"," ","s","m","i","t","h">>>>,
    <<<<"d","e"," ","v","o","n","t","a"," ","s","m","i","t","h">>,
      <<"d","e","v","o","n","t","a"," ","s","m","i","t","h">>>>,
    <<<<"d","e","v","o","n"," ","a","c","h","a","n","e">>,
      <<"d","e"," ","v","o","n"," ","a","c","h","a","n","e">>>>,
    <<<<"d","e","a","n","d","r","e"," ","h","o","p","k","i","n","s">>,
      <<"d","e"," ","a","n","d","r","e"," ","h","o","p","k","i","n","s">>>>,
    <<<<"d","e","a","n","d","r","e"," ","s","w","i","f","t">>,
      <<"d","e"," ","a","n","d","r","e"," ","s","w","i","f","t">>>>,
    <<<<"d","e","e","b","o"," ","s","a","m","u","e","l">>,
      <<"d","e","e","b","o"," ","s","a","m","u","e","l">>>>,
    <<<<"d","j"," ","m","o","o","r","e">>,
      <<"d"," ","j"," ","m","o","o","r","e">>>>,
    <<<<"d"," ","j"," ","m","o","o","r","e">>,
      <<"d","j"," ","m","o","o","r","e">>>>,
    <<<<"j","k"," ","d","o","b","b","i","n","s">>,
      <<"j"," ","k"," ","d","o","b","b","i","n","s">>>>,
    <<<<"j"," ","k"," ","d","o","b","b","i","n","s">>,
      <<"j","k"," ","d","o","b","b","i","n","s">>>>,
    <<<<"t","j"," ","h","o","c","k","e","n","s","o","n">>,
      <<"t"," ","j"," ","h","o","c","k","e","n","s","o","n">>>>,
    <<<<"t"," ","j"," ","h","o","c","k","e","n","s","o","n">>,
      <<"t","j"," ","h","o","c","k","e","n","s","o","n">>>>>>

applyAlias(normalizedName) ==
    IF \E i \in DOMAIN nameAliases : nameAliases[i][1] = normalizedName
    THEN nameAliases[CHOOSE i \in DOMAIN nameAliases :
                        nameAliases[i][1] = normalizedName][2]
    ELSE normalizedName

(***************************************************************************)
(* services/sleeper.ts: one poll cycle's derivation (fetchPicks, lines     *)
(* 90-144).  A pick is the feed's object with its metadata flattened:      *)
(* [pick_no, picked_by, first_name, last_name, player_name, position,      *)
(* team].  An absent field, and absent metadata, is the empty string: the  *)
(* code reads every field through a truthiness test or `|| ''`.  player_id *)
(* is never read.                                                          *)
(***************************************************************************)
\* the comparator's key: (a.pick_no || 0)
sortKey(pick) == pick.pick_no

\* the place Array.prototype.sort (stable) gives p among the sorted picks
RECURSIVE insertPick(_, _)
insertPick(sorted, p) ==
    IF sorted = <<>> THEN <<p>>
    ELSE IF sortKey(p) - sortKey(Head(sorted)) < 0
         THEN <<p>> \o sorted
         ELSE <<Head(sorted)>> \o insertPick(Tail(sorted), p)

RECURSIVE sortFrom(_, _)
sortFrom(picks, sorted) ==
    IF picks = <<>> THEN sorted
    ELSE sortFrom(Tail(picks), insertPick(sorted, Head(picks)))

\* the picks left in the order the feed listed them
sortPicksAsListed(picks) == picks

\* picks.sort((a, b) => (a.pick_no || 0) - (b.pick_no || 0))
sortPicks(picks) == sortFrom(picks, <<>>)

\* null is the empty sequence: the results that are not null are never empty
\* extractPlayerName without its fallback to player_name
extractPlayerNameWithoutFallback(pick) ==
    IF pick.first_name # <<>> /\ pick.last_name # <<>>
    THEN pick.first_name \o <<" ">> \o pick.last_name
    ELSE <<>>

extractPlayerName(pick) ==
    IF pick.first_name # <<>> /\ pick.last_name # <<>>
    THEN pick.first_name \o <<" ">> \o pick.last_name
    ELSE IF pick.player_name # <<>> THEN pick.player_name
         ELSE <<>>

\* formatPickDisplay with pickNo % leagueSize in place of (pickNo - 1) % leagueSize
formatPickDisplayOffByOne(pickNo, leagueSize) ==
    LET round == ceilDiv(pickNo, leagueSize)
        pickInRound == jsRem(pickNo, leagueSize) + 1
    IN  numberToString(round) \o <<".">> \o padStart2(numberToString(pickInRound))

formatPickDisplay(pickNo, leagueSize) ==
    LET round == ceilDiv(pickNo, leagueSize)
        pickInRound == jsRem(pickNo - 1, leagueSize) + 1
    IN  numberToString(round) \o <<".">> \o padStart2(numberToString(pickInRound))

\* rookiePickName with Math.floor(kickerCount / leagueSize) + 1 as the round
rookiePickNameFloorRound(kickerCount, leagueSize) ==
    LET round == (kickerCount \div leagueSize) + 1
        pickInRound == jsRem(kickerCount - 1, leagueSize) + 1
        pickNumber == padStart2(numberToString(pickInRound))
    IN  <<"2","0","2","6"," ">> \o numberToString(round) \o <<".">> \o pickNumber

\* `2026 ${round}.${pickNumber}` for the kickerCount-th kicker
rookiePickName(kickerCount, leagueSize) ==
    LET round == ceilDiv(kickerCount, leagueSize)
        pickInRound == jsRem(kickerCount - 1, leagueSize) + 1
        pickNumber == padStart2(numberToString(pickInRound))
    IN  <<"2","0","2","6"," ">> \o numberToString(round) \o <<".">> \o pickNumber

\* the draftPicks.push of the rookie-pick branch
rookieDraftPick(pick, kickerCount, leagueSize) ==
    [pickNo |-> pick.pick_no,
     pickDisplay |-> formatPickDisplay(pick.pick_no, leagueSize),
     playerName |-> rookiePickName(kickerCount, leagueSize),
     position |-> <<"P","I","C","K">>,
     team |-> "",
     pickedBy |-> pick.picked_by,
     isMyPick |-> FALSE]

\* the draftPicks.push of the player branch
playerDraftPick(pick, playerName, leagueSize) ==
    [pickNo |-> pick.pick_no,
     pickDisplay |-> formatPickDisplay(pick.pick_no, leagueSize),
     playerName |-> playerName,
     position |-> toUpperCase(pick.position),
     team |-> pick.team,
     pickedBy |-> pick.picked_by,
     isMyPick |-> FALSE]

\* the body of `for (const pick of picks)`
RECURSIVE pickLoop(_, _, _, _, _, _)
pickLoop(picks, rookiePickMode, leagueSize, kickerCount, pickedNames, dPicks) ==
    IF picks = <<>>
    THEN [pickedNames |-> pickedNames, draftPicks |-> dPicks]
    ELSE LET pick == Head(picks)
             position == toUpperCase(pick.position)
             playerName == extractPlayerName(pick)
         IN  IF rookiePickMode /\ position = <<"K">>
             THEN pickLoop(Tail(picks), rookiePickMode, leagueSize, kickerCount + 1,
                      pickedNames \cup
                          {normalizeName(rookiePickName(kickerCount + 1, leagueSize))},
                      Append(dPicks, rookieDraftPick(pick, kickerCount + 1, leagueSize)))
             ELSE IF playerName # <<>>
                  THEN pickLoop(Tail(picks), rookiePickMode, leagueSize, kickerCount,
                           pickedNames \cup {applyAlias(normalizeName(playerName))},
                           Append(dPicks, playerDraftPick(pick, playerName, leagueSize)))
                  ELSE pickLoop(Tail(picks), rookiePickMode, leagueSize, kickerCount,
                           pickedNames, dPicks)

\* cycleResult that counts the picks it named instead of the picks fetched
cycleResultCountingNamedPicks(body, rookiePickMode, leagueSize) ==
    LET r == pickLoop(sortPicks(body), rookiePickMode, leagueSize, 0, {}, <<>>)
    IN  [pickedNames |-> r.pickedNames,
         draftPicks |-> r.draftPicks,
         picksCount |-> Len(r.draftPicks)]

\* what a successful cycle hands to its three callbacks
cycleResult(body, rookiePickMode, leagueSize) ==
    LET r == pickLoop(sortPicks(body), rookiePickMode, leagueSize, 0, {}, <<>>)
    IN  [pickedNames |-> r.pickedNames,
         draftPicks |-> r.draftPicks,
         picksCount |-> Len(body)]

(***************************************************************************)
(* utils/csvParser.ts.  A file's content is the list of its non-blank      *)
(* lines, each already cut into cells (parseCSVLine: the quote and comma   *)
(* scanning is not modelled).  Column indices are 1-based; 0 is the        *)
(* code's -1.                                                              *)
(***************************************************************************)
\* headerMap.get(name): Map.set keeps the last column that has the header
headerIndex(headers, name) ==
    LET hits == {i \in DOMAIN headers : trim(toLowerCase(headers[i])) = name}
    IN  IF hits = {} THEN 0 ELSE CHOOSE i \in hits : \A j \in hits : j <= i

RECURSIVE findHeaderIndex(_, _)
findHeaderIndex(headers, possibleNames) ==
    IF possibleNames = <<>> THEN 0
    ELSE IF headerIndex(headers, toLowerCase(Head(possibleNames))) # 0
         THEN headerIndex(headers, toLowerCase(Head(possibleNames)))
         ELSE findHeaderIndex(headers, Tail(possibleNames))

nameColumn(headers) == findHeaderIndex(headers, << <<"n","a","m","e">> >>)
tierColumn(headers) == findHeaderIndex(headers, << <<"t","i","e","r">> >>)
posColumn(headers) ==
    findHeaderIndex(headers, << <<"p","o","s">>,
                                <<"p","o","s","i","t","i","o","n">> >>)
assetTypeColumn(headers) ==
    findHeaderIndex(headers, << <<"a","s","s","e","t","t","y","p","e">>,
                                <<"a","s","s","e","t","_","t","y","p","e">> >>)

\* the rankings.push of one data line; manualOverride is left undefined, which
\* every reader treats as false
rankingRow(values, headers) ==
    [name |-> trim(values[nameColumn(headers)]),
     tier |-> trim(values[tierColumn(headers)]),
     position |-> trim(values[posColumn(headers)]),
     assetType |-> IF assetTypeColumn(headers) # 0
                      /\ Len(values) >= assetTypeColumn(headers)
                   THEN trim(values[assetTypeColumn(headers)])
                   ELSE <<>>,
     taken |-> FALSE,
     manualOverride |-> FALSE,
     normalizedName |-> applyAlias(normalizeName(trim(values[nameColumn(headers)])))]

RECURSIVE parseRows(_, _)
parseRows(lines, headers) ==
    IF lines = <<>> THEN <<>>
    ELSE LET values == Head(lines)
         IN  IF /\ Len(values) >= nameColumn(headers)
                /\ Len(values) >= tierColumn(headers)
                /\ Len(values) >= posColumn(headers)
                /\ trim(values[nameColumn(headers)]) # <<>>
             THEN <<rankingRow(values, headers)>> \o parseRows(Tail(lines), headers)
             ELSE parseRows(Tail(lines), headers)

\* parseCSV that takes a header without the columns for a file without rows
parseCSVWithoutHeaderCheck(content) ==
    IF content = <<>> THEN [threw |-> FALSE, rows |-> <<>>]
    ELSE IF \/ nameColumn(content[1]) = 0
            \/ tierColumn(content[1]) = 0
            \/ posColumn(content[1]) = 0
         THEN [threw |-> FALSE, rows |-> <<>>]
         ELSE [threw |-> FALSE, rows |-> parseRows(Tail(content), content[1])]

\* [threw |-> TRUE] is the thrown Error; otherwise rows is the returned array
parseCSV(content) ==
    IF content = <<>> THEN [threw |-> FALSE, rows |-> <<>>]
    ELSE IF \/ nameColumn(content[1]) = 0
            \/ tierColumn(content[1]) = 0
            \/ posColumn(content[1]) = 0
         THEN [threw |-> TRUE, rows |-> <<>>]
         ELSE [threw |-> FALSE, rows |-> parseRows(Tail(content), content[1])]

(***************************************************************************)
(* services/sleeper.ts: SleeperService.  A world is what the service's     *)
(* methods read and write: [svc, timers, inflight].                        *)
(***************************************************************************)
TimerIds == {"t1", "t2", "t3"}

\* the fields of `new SleeperService()`; callbacks stands for the four
\* callback fields, which are assigned together
newService ==
    [intervalId |-> Null,
     draftId |-> Null,
     pollIntervalMs |-> 5000,
     rookiePickMode |-> FALSE,
     leagueSize |-> 12,
     callbacks |-> Null]

isPolling(s) == s.intervalId # Null

\* window.setInterval returns an id that no active timer has
freshTimerId(w) ==
    CHOOSE id \in TimerIds : \A t \in w.timers : t.id # id

\* stopPolling that forgets the timer's id without clearing the timer
stopPollingKeepingTimer(w) == [w EXCEPT !.svc.intervalId = Null]

\* stopPolling that also drops the requests still waiting for their answer
stopPollingAbortingFetches(w) ==
    IF w.svc.intervalId # Null
    THEN [w EXCEPT !.timers = {t \in w.timers : t.id # w.svc.intervalId},
                   !.svc.intervalId = Null,
                   !.inflight = <<>>]
    ELSE w

stopPolling(w) ==
    IF w.svc.intervalId # Null
    THEN [w EXCEPT !.timers = {t \in w.timers : t.id # w.svc.intervalId},
                   !.svc.intervalId = Null]
    ELSE w

\* fetchPicks that returns at once while an earlier request is outstanding
fetchPicksUnlessBusy(w) ==
    IF w.svc.draftId \in {Null, ""} \/ w.inflight # <<>>
    THEN w
    ELSE [w EXCEPT !.inflight = Append(@, [draftId |-> w.svc.draftId])]

\* fetchPicks up to its first await: the request is sent for this.draftId
fetchPicks(w) ==
    IF w.svc.draftId \in {Null, ""}
    THEN w
    ELSE [w EXCEPT !.inflight = Append(@, [draftId |-> w.svc.draftId])]

\* lines 48-55 of startPolling
assignFields(w, draftId, pollIntervalMs, rookiePickMode, leagueSize) ==
    [w EXCEPT !.svc.draftId = draftId,
              !.svc.pollIntervalMs = pollIntervalMs,
              !.svc.rookiePickMode = rookiePickMode,
              !.svc.leagueSize = leagueSize,
              !.svc.callbacks = "app"]

\* lines 61-63 of startPolling
setInterval(w) ==
    [w EXCEPT !.timers = @ \cup {[id |-> freshTimerId(w),
                                  ms |-> w.svc.pollIntervalMs]},
              !.svc.intervalId = freshTimerId(w)]

\* startPolling without its first line, this.stopPolling()
startPollingLeakingTimer(w, draftId, pollIntervalMs, rookiePickMode, leagueSize) ==
    setInterval(fetchPicks(assignFields(w,
        draftId, pollIntervalMs, rookiePickMode, leagueSize)))

\* startPolling without its initial fetch
startPollingWithoutFetch(w, draftId, pollIntervalMs, rookiePickMode, leagueSize) ==
    setInterval(assignFields(stopPolling(w),
        draftId, pollIntervalMs, rookiePickMode, leagueSize))

\* startPolling that sends its initial fetch before it assigns the new fields
startPollingFetchingFirst(w, draftId, pollIntervalMs, rookiePickMode, leagueSize) ==
    setInterval(assignFields(fetchPicks(stopPolling(w)),
        draftId, pollIntervalMs, rookiePickMode, leagueSize))

startPolling(w, draftId, pollIntervalMs, rookiePickMode, leagueSize) ==
    setInterval(fetchPicks(assignFields(stopPolling(w),
        draftId, pollIntervalMs, rookiePickMode, leagueSize)))

world == [svc |-> svc, timers |-> timers, inflight |-> inflight]

\* the sequence s without its i-th element
RemoveAt(s, i) == SubSeq(s, 1, i - 1) \o SubSeq(s, i + 1, Len(s))

(***************************************************************************)
(* Inputs: the files the open-file dialog can return, the settings the     *)
(* Settings panel can apply, the answers of the draft feed.                *)
(***************************************************************************)
rankingsCsv ==
    << <<<<"n","a","m","e">>, <<"t","i","e","r">>, <<"p","o","s">>, <<"a","s","s","e","t","T","y","p","e">>>>,
       <<<<"B","i","j","a","n"," ","R","o","b","i","n","s","o","n">>, <<"1">>, <<"R","B">>, <<"P","L","A","Y","E","R">>>>,
       <<<<"2","0","2","6"," ","1",".","0","1">>, <<"1">>, <<"P","I","C","K">>, <<"P","I","C","K">>>> >>

\* the draft board of the service's own specifications
boardCsv ==
    << <<<<"N","a","m","e">>, <<"T","i","e","r">>, <<"P","o","s","i","t","i","o","n">>>>,
       <<<<"B","i","j","a","n"," ","R","o","b","i","n","s","o","n">>, <<"1">>, <<"R","B">>>>,
       <<<<"2","0","2","6"," ","1",".","0","1">>, <<"1">>, <<"P","I","C","K">>>>,
       <<<<"2","0","2","6"," ","2",".","0","1">>, <<"2">>, <<"P","I","C","K">>>>,
       <<<<"H","a","r","r","i","s","o","n"," ","B","u","t","k","e","r">>, <<"3">>, <<"K">>>>,
       <<<<"K","e","n","n","e","t","h"," ","W","a","l","k","e","r">>, <<"2">>, <<"R","B">>>> >>

\* a file whose header lacks the pos/position column
incompleteCsv ==
    << <<<<"n","a","m","e">>, <<"t","i","e","r">>>>,
       <<<<"B","i","j","a","n"," ","R","o","b","i","n","s","o","n">>, <<"1">>>> >>

\* a file without a non-blank line
emptyCsv == <<>>

\* a file that starts with a player's line: no header row
headlessCsv ==
    << <<<<"B","i","j","a","n"," ","R","o","b","i","n","s","o","n">>, <<"1">>, <<"R","B">>>>,
       <<<<"K","e","n","n","e","t","h"," ","W","a","l","k","e","r">>, <<"2">>, <<"R","B">>>> >>

\* a file whose header lacks the name column, the others spelled freely
namelessCsv ==
    << <<<<"T","i","e","r"," ">>, <<"P","O","S","I","T","I","O","N">>>>,
       <<<<"1">>, <<"R","B">>>> >>

DialogResults ==
    { [cancelled |-> TRUE, filePath |-> <<"">>, content |-> <<>>],
      [cancelled |-> FALSE, filePath |-> <<"home", "rankings.csv">>,
       content |-> rankingsCsv],
      [cancelled |-> FALSE, filePath |-> <<"home", "broken.csv">>,
       content |-> incompleteCsv] }

\* every file the dialog is tried with
LoadResults ==
    DialogResults \cup
    { [cancelled |-> FALSE, filePath |-> <<"home", "empty.csv">>, content |-> emptyCsv],
      [cancelled |-> FALSE, filePath |-> <<"home", "headless.csv">>,
       content |-> headlessCsv],
      [cancelled |-> FALSE, filePath |-> <<"home", "nameless.csv">>,
       content |-> namelessCsv] }

FeedPick(pickNo, pickedBy, firstName, lastName, playerName, position, team) ==
    [pick_no |-> pickNo, picked_by |-> pickedBy, first_name |-> firstName,
     last_name |-> lastName, player_name |-> playerName, position |-> position,
     team |-> team]

bijanPick == FeedPick(1, "u1", <<"B","i","j","a","n">>, <<"R","o","b","i","n","s","o","n">>, <<>>, <<"R","B">>, "ATL")

kickerPick == FeedPick(2, "u2", <<>>, <<>>, <<"H","a","r","r","i","s","o","n"," ","B","u","t","k","e","r">>, <<"K">>, "KC")

lowerCaseKickerPick == FeedPick(3, "u1", <<"J","a","k","e">>, <<"E","l","l","i","o","t","t">>, <<>>, <<"k">>, "PHI")

namelessPick == FeedPick(4, "u2", <<>>, <<>>, <<>>, <<"W","R">>, "")

aliasPick == FeedPick(5, "u1", <<>>, <<>>, <<"K","e","n"," ","W","a","l","k","e","r"," ","I","I","I">>, <<"R","B">>, "SEA")

\* the pick of the one-pick snapshot: pick_no and the two name fields only
scenarioPick == FeedPick(1, "", <<"B","i","j","a","n">>, <<"R","o","b","i","n","s","o","n">>, <<>>, <<>>, "")

FeedPicks == {bijanPick, kickerPick, lowerCaseKickerPick, namelessPick, aliasPick}

\* what the feed answers for a draft in the App's session: nothing picked yet,
\* one pick, two picks listed out of order
Feed == { <<>>, <<bijanPick>>, <<kickerPick, bijanPick>> }

\* picks in a listing of FeedPicks in any order
MaxPicks == 2

Listings(n) ==
    {body \in [1..n -> FeedPicks] : \A i, j \in 1..n : i # j => body[i] # body[j]}

\* a draft of 14 picks: Bijan Robinson, then thirteen kickers
thirteenKickers ==
    <<bijanPick>> \o
    [k \in 1..13 |-> FeedPick(k + 1, "u2", <<>>, <<>>, <<"H","a","r","r","i","s","o","n"," ","B","u","t","k","e","r">>, <<"K">>, "KC")]

Reverse(seq) == [i \in 1..Len(seq) |-> seq[Len(seq) + 1 - i]]

\* every answer the feed is given in some specification
FeedAll ==
    UNION {Listings(n) : n \in 0..MaxPicks}
        \cup {thirteenKickers, Reverse(thirteenKickers), <<scenarioPick>>}

\* a board and a feed that spell the same players differently
spellingsCsv ==
    << <<<<"N","a","m","e">>, <<"T","i","e","r">>, <<"P","o","s">>>>,
       <<<<"J","a","'","M","a","r","r"," ","C","h","a","s","e"," ","J","r",".">>, <<"1">>, <<"W","R">>>>,
       <<<<"D",".","K","."," ","M","e","t","c","a","l","f">>, <<"1">>, <<"W","R">>>>,
       <<<<"j","a","m","a","r","r"," ","c","h","a","s","e">>, <<"2">>, <<"W","R">>>> >>

jaMarrPick == FeedPick(1, "u1", <<"J","a","'","M","a","r","r">>, <<"C","h","a","s","e"," ","J","r",".">>, <<>>, <<"W","R">>, "CIN")

jamarrPick == FeedPick(1, "u1", <<"j","a","m","a","r","r">>, <<"c","h","a","s","e">>, <<>>, <<"W","R">>, "CIN")

metcalfPick == FeedPick(2, "u2", <<>>, <<>>, <<"D","K"," ","M","e","t","c","a","l","f">>, <<"W","R">>, "PIT")

SpellingPicks == {jaMarrPick, jamarrPick, metcalfPick}

\* the feed's answers in the spellings session: at most one pick per pick_no
SpellingFeed ==
    { <<>>, <<jaMarrPick>>, <<jamarrPick>>, <<metcalfPick>>,
      <<metcalfPick, jaMarrPick>>, <<jamarrPick, metcalfPick>> }

LeagueSizes == {8, 12}

\* the messages of the Errors that fetchPicks can catch: fetch rejecting, a
\* status that is not ok, response.json() rejecting, picks.sort missing
FailureMessages ==
    { "Failed to fetch", "HTTP 404: Not Found",
      "Unexpected token < in JSON at position 0", "picks.sort is not a function" }

\* the Settings panel: Apply is enabled for a non-empty trimmed draft id
SettingsChoices ==
    [draftId : {"d1"}, pollIntervalMs : {5000}, rookiePickMode : BOOLEAN,
     leagueSize : {12}]

\* the arguments a caller of startPolling can pass
StartArguments ==
    [draftId : {"", "d1", "d2"}, pollIntervalMs : {1000, 5000},
     rookiePickMode : BOOLEAN, leagueSize : LeagueSizes]

\* fetches that may be pending at once
MaxInFlight == 2

\* parseCSV and the poll cycle's derivation, evaluated once for each input
FileContents ==
    {result.content : result \in LoadResults} \cup {boardCsv, spellingsCsv}

parseTable == [content \in FileContents |-> parseCSV(content)] @@ <<>>

cycleTable ==
    [rookiePickMode \in BOOLEAN |->
        [leagueSize \in LeagueSizes |->
            [body \in FeedAll \cup SpellingFeed |->
                cycleResult(body, rookiePickMode, leagueSize)] @@ <<>>] @@ <<>>] @@ <<>>

(***************************************************************************)
(* App.tsx: the session controller.  storedCSVs ids are Date.now() stamps: *)
(* an id no stored file has.  logs is kept as its newest entry; count,     *)
(* name and text are the values the message interpolates.                  *)
(***************************************************************************)
CsvIds == {"c1", "c2", "c3"}

logEntry(type, message, count, name, text) ==
    [type |-> type, message |-> message, count |-> count, name |-> name,
     text |-> text]

noLog == logEntry("none", "", 0, <<>>, "")

initialSyncStatus ==
    [lastSync |-> Null, picksCount |-> 0, error |-> Null, isPolling |-> FALSE]

\* result.filePath.split(/[/\\]/).pop() || result.filePath, the path given as
\* its segments; the dialog returns a file's path, whose last segment is not empty
baseName(filePath) == filePath[Len(filePath)]

freshCsvId == CHOOSE id \in CsvIds : \A k \in DOMAIN storedCSVs : storedCSVs[k].id # id

\* mergeRow without its manualOverride test
mergeRowOverwriting(ranking, pickedNames) ==
    [ranking EXCEPT !.taken = (ranking.normalizedName \in pickedNames)]

\* mergeRow that marks rows taken and never marks them available again
mergeRowOnlyMarking(ranking, pickedNames) ==
    IF ranking.manualOverride
    THEN ranking
    ELSE [ranking EXCEPT !.taken = @ \/ (ranking.normalizedName \in pickedNames)]

\* the setRankings updater of onPicksUpdate
mergeRow(ranking, pickedNames) ==
    IF ranking.manualOverride
    THEN ranking
    ELSE [ranking EXCEPT !.taken = (ranking.normalizedName \in pickedNames)]

\* onPicksUpdate that passes over the rows already marked taken
onPicksUpdateSkippingTakenRows(prev, pickedNames) ==
    [i \in 1..Len(prev) |->
        IF prev[i].taken THEN prev[i] ELSE mergeRow(prev[i], pickedNames)]

onPicksUpdate(prev, pickedNames) ==
    [i \in 1..Len(prev) |-> mergeRow(prev[i], pickedNames)]

\* toggleRow that flips manualOverride as it flips taken
toggleRowFlippingOverride(ranking) ==
    [ranking EXCEPT !.taken = ~ranking.taken, !.manualOverride = ~@]

\* the setRankings updater of handleToggleTaken
toggleRow(ranking) ==
    [ranking EXCEPT !.taken = ~ranking.taken, !.manualOverride = TRUE]

toggleTaken(prev, index) ==
    [i \in 1..Len(prev) |-> IF i = index THEN toggleRow(prev[i]) ELSE prev[i]]

\* history only: the operation that made the last step and this.intervalId as
\* that operation found it; for the end of a fetch, the callbacks it invoked in
\* order and, on success, the feed's answer and the rows it was merged into
op(name) ==
    [name |-> name, timerBefore |-> svc.intervalId, calls |-> <<>>,
     body |-> <<>>, rankingsBefore |-> <<>>]

handleFileSelect(result) ==
    /\ lastOp' = op("handleFileSelect")
    /\ UNCHANGED <<svc, timers, inflight, syncStatus, draftPicks>>
    /\ IF result.cancelled
       THEN UNCHANGED <<rankings, fileName, storedCSVs, selectedCSVId, lastLog>>
       ELSE IF parseTable[result.content].threw
            THEN /\ lastLog' = logEntry("error",
                        "CSV must contain columns: name, tier, and pos/position",
                        0, <<>>, "")
                 /\ UNCHANGED <<rankings, fileName, storedCSVs, selectedCSVId>>
            ELSE LET parsed == parseTable[result.content].rows
                     name == baseName(result.filePath)
                     newCSV == [id |-> freshCsvId, name |-> name,
                                content |-> result.content]
                     keep(csv) == csv.name # name
                 IN  /\ rankings' = parsed
                     /\ fileName' = name
                     /\ storedCSVs' = Append(SelectSeq(storedCSVs, keep), newCSV)
                     /\ selectedCSVId' = newCSV.id
                     /\ lastLog' = logEntry("success", "Loaded players from CSV",
                                            Len(parsed), <<>>, "")

handleSelectCSV(csvId) ==
    /\ lastOp' = op("handleSelectCSV")
    /\ UNCHANGED <<svc, timers, inflight, syncStatus, draftPicks, storedCSVs>>
    /\ IF \E k \in DOMAIN storedCSVs : storedCSVs[k].id = csvId
       THEN LET csv == storedCSVs[CHOOSE k \in DOMAIN storedCSVs :
                                      storedCSVs[k].id = csvId]
            IN  /\ rankings' = parseTable[csv.content].rows
                /\ fileName' = csv.name
                /\ selectedCSVId' = csvId
                /\ lastLog' = logEntry("info", "Switched to", 0, <<>>, csv.name)
       ELSE UNCHANGED <<rankings, fileName, selectedCSVId, lastLog>>

handleDeleteCSV(csvId) ==
    LET keep(c) == c.id # csvId
    IN  /\ lastOp' = op("handleDeleteCSV")
        /\ UNCHANGED <<svc, timers, inflight, syncStatus, draftPicks>>
        /\ storedCSVs' = SelectSeq(storedCSVs, keep)
        /\ IF selectedCSVId = csvId
           THEN /\ rankings' = <<>>
                /\ fileName' = Null
                /\ selectedCSVId' = Null
           ELSE UNCHANGED <<rankings, fileName, selectedCSVId>>
        /\ lastLog' = logEntry("info", "CSV removed from saved list", 0, <<>>, "")

handleSettingsChange(settings) ==
    /\ lastOp' = op("handleSettingsChange")
    /\ UNCHANGED <<rankings, fileName, storedCSVs, selectedCSVId, draftPicks>>
    /\ IF settings.draftId = ""
       THEN /\ lastLog' = logEntry("error", "Draft ID is required", 0, <<>>, "")
            /\ UNCHANGED <<svc, timers, inflight, syncStatus>>
       ELSE LET w == startPolling(stopPolling(world), settings.draftId,
                         settings.pollIntervalMs, settings.rookiePickMode,
                         settings.leagueSize)
            IN  /\ svc' = w.svc
                /\ timers' = w.timers
                /\ inflight' = w.inflight
                /\ syncStatus' = [syncStatus EXCEPT !.isPolling = TRUE,
                                                    !.error = Null]
                /\ lastLog' = logEntry("info", "Started polling draft",
                        IF settings.rookiePickMode THEN settings.leagueSize ELSE 0,
                        <<>>, settings.draftId)

handleToggleTaken(index) ==
    /\ lastOp' = op("handleToggleTaken")
    /\ rankings' = toggleTaken(rankings, index)
    /\ lastLog' = logEntry("info", "Manually toggled", 0, rankings[index].name, "")
    /\ UNCHANGED <<svc, timers, inflight, fileName, storedCSVs, selectedCSVId,
                   syncStatus, draftPicks>>

handleStopPolling ==
    /\ lastOp' = op("handleStopPolling")
    /\ svc' = stopPolling(world).svc
    /\ timers' = stopPolling(world).timers
    /\ syncStatus' = [syncStatus EXCEPT !.isPolling = FALSE]
    /\ lastLog' = logEntry("info", "Stopped polling", 0, <<>>, "")
    /\ UNCHANGED <<inflight, rankings, fileName, storedCSVs, selectedCSVId,
                   draftPicks>>

handleReset ==
    /\ lastOp' = op("handleReset")
    /\ svc' = stopPolling(world).svc
    /\ timers' = stopPolling(world).timers
    /\ rankings' = <<>>
    /\ fileName' = Null
    /\ syncStatus' = initialSyncStatus
    /\ lastLog' = logEntry("success", "Reset complete - ready for new draft",
                           0, <<>>, "")
    /\ draftPicks' = <<>>
    /\ UNCHANGED <<inflight, storedCSVs, selectedCSVId>>

(***************************************************************************)
(* The environment of the service: the window's timer and the draft feed.  *)
(***************************************************************************)
\* the setInterval callback of timer t: () => this.fetchPicks()
Tick(t) ==
    /\ t \in timers
    /\ lastOp' = op("tick")
    /\ inflight' = fetchPicks(world).inflight
    /\ UNCHANGED <<svc, timers, rankings, fileName, storedCSVs, selectedCSVId,
                   syncStatus, draftPicks, lastLog>>

\* onError that starts from a fresh status instead of the previous one
onErrorClearing(prev, error) == [initialSyncStatus EXCEPT !.error = error]

\* the setSyncStatus updater of the App's onError
onError(prev, error) == [prev EXCEPT !.error = error]

\* the App's onSync
onSync(picksCount) ==
    [lastSync |-> "date", picksCount |-> picksCount, error |-> Null,
     isPolling |-> TRUE]

\* the end of a fetch that adds its names and picks to those of the cycle before
FetchSucceedKeepingEarlierPicks(i, body) ==
    LET result == cycleTable[svc.rookiePickMode][svc.leagueSize][body]
        earlier == {rankings[k].normalizedName : k \in {j \in DOMAIN rankings : rankings[j].taken}}
    IN  /\ i \in DOMAIN inflight
        /\ lastOp' = [op("fetchSucceed") EXCEPT
                          !.body = body,
                          !.rankingsBefore = rankings,
                          !.calls = IF svc.callbacks # Null
                                    THEN <<"onPicksUpdate", "onDraftPicksUpdate",
                                           "onSync">>
                                    ELSE <<>>]
        /\ inflight' = RemoveAt(inflight, i)
        /\ IF svc.callbacks # Null
           THEN /\ rankings' = onPicksUpdate(rankings, result.pickedNames \cup earlier)
                /\ draftPicks' = draftPicks \o result.draftPicks
                /\ syncStatus' = onSync(result.picksCount)
                /\ lastLog' = logEntry("success", "Synced picks", result.picksCount,
                                       <<>>, "")
           ELSE UNCHANGED <<rankings, draftPicks, syncStatus, lastLog>>
        /\ UNCHANGED <<svc, timers, fileName, storedCSVs, selectedCSVId>>

\* fetchPicks from its await on: the i-th pending fetch is answered with the
\* array `body` and the callbacks run (lines 90-155)
FetchSucceed(i, body) ==
    LET result == cycleTable[svc.rookiePickMode][svc.leagueSize][body]
    IN  /\ i \in DOMAIN inflight
        /\ lastOp' = [op("fetchSucceed") EXCEPT
                          !.body = body,
                          !.rankingsBefore = rankings,
                          !.calls = IF svc.callbacks # Null
                                    THEN <<"onPicksUpdate", "onDraftPicksUpdate",
                                           "onSync">>
                                    ELSE <<>>]
        /\ inflight' = RemoveAt(inflight, i)
        /\ IF svc.callbacks # Null
           THEN /\ rankings' = onPicksUpdate(rankings, result.pickedNames)
                /\ draftPicks' = result.draftPicks
                /\ syncStatus' = onSync(result.picksCount)
                /\ lastLog' = logEntry("success", "Synced picks", result.picksCount,
                                       <<>>, "")
           ELSE UNCHANGED <<rankings, draftPicks, syncStatus, lastLog>>
        /\ UNCHANGED <<svc, timers, fileName, storedCSVs, selectedCSVId>>

\* fetchPicks from its await on: the i-th pending fetch rejects, answers with a
\* status that is not ok, or with a body that is no JSON array, and the catch
\* block runs with the Error's message (lines 156-161)
FetchFail(i, errorMessage) ==
    /\ i \in DOMAIN inflight
    /\ lastOp' = [op("fetchFail") EXCEPT
                      !.calls = IF svc.callbacks # Null THEN <<"onError">> ELSE <<>>]
    /\ inflight' = RemoveAt(inflight, i)
    /\ IF svc.callbacks # Null
       THEN /\ syncStatus' = onError(syncStatus, errorMessage)
            /\ lastLog' = logEntry("error", "Sync error", 0, <<>>, errorMessage)
       ELSE UNCHANGED <<syncStatus, lastLog>>
    /\ UNCHANGED <<svc, timers, rankings, fileName, storedCSVs, selectedCSVId,
                   draftPicks>>

(***************************************************************************)
(* The App's session: what the rendered controls let the user do.          *)
(***************************************************************************)
Init ==
    /\ svc = newService
    /\ timers = {}
    /\ inflight = <<>>
    /\ rankings = <<>>
    /\ fileName = Null
    /\ storedCSVs = <<>>
    /\ selectedCSVId = Null
    /\ syncStatus = initialSyncStatus
    /\ draftPicks = <<>>
    /\ lastLog = noLog
    /\ lastOp = [name |-> "mount", timerBefore |-> Null, calls |-> <<>>,
                 body |-> <<>>, rankingsBefore |-> <<>>]
    /\ lineup = Idle /\ player = Idle /\ standings = Idle /\ rtm = Idle
    /\ fetchHistory = noHistory
    /\ nameKey = Idle

ClickLoadCsv ==
    /\ \E result \in DialogResults : handleFileSelect(result)
    /\ UNCHANGED <<engineVars, fetchHistory, nameKey>>

ChooseSavedCsv ==
    /\ storedCSVs # <<>>
    /\ \E csvId \in {storedCSVs[k].id : k \in DOMAIN storedCSVs} \cup {""} :
           handleSelectCSV(csvId)
    /\ UNCHANGED <<engineVars, fetchHistory, nameKey>>

ClickDeleteCsv ==
    /\ storedCSVs # <<>>
    /\ selectedCSVId # Null
    /\ handleDeleteCSV(selectedCSVId)
    /\ UNCHANGED <<engineVars, fetchHistory, nameKey>>

ClickStartPolling ==
    /\ ~syncStatus.isPolling
    /\ Len(inflight) < MaxInFlight
    /\ \E settings \in SettingsChoices : handleSettingsChange(settings)
    /\ UNCHANGED <<engineVars, fetchHistory, nameKey>>

ClickTaken ==
    /\ \E index \in DOMAIN rankings : handleToggleTaken(index)
    /\ UNCHANGED <<engineVars, fetchHistory, nameKey>>

ClickStopPolling ==
    /\ syncStatus.isPolling /\ handleStopPolling
    /\ UNCHANGED <<engineVars, fetchHistory, nameKey>>

ClickNewDraft ==
    /\ (Len(rankings) > 0 \/ syncStatus.isPolling) /\ handleReset
    /\ UNCHANGED <<engineVars, fetchHistory, nameKey>>

TimerFires ==
    /\ \E t \in timers : Len(inflight) < MaxInFlight /\ Tick(t)
    /\ UNCHANGED <<engineVars, fetchHistory, nameKey>>

FeedAnswers ==
    /\ \E i \in DOMAIN inflight : \E body \in Feed : FetchSucceed(i, body)
    /\ UNCHANGED <<engineVars, fetchHistory, nameKey>>

FeedFails ==
    \E i \in DOMAIN inflight : \E errorMessage \in FailureMessages :
        FetchFail(i, errorMessage)
    /\ UNCHANGED <<engineVars, fetchHistory, nameKey>>

Next ==
    \/ ClickLoadCsv
    \/ ChooseSavedCsv
    \/ ClickDeleteCsv
    \/ ClickStartPolling
    \/ ClickTaken
    \/ ClickStopPolling
    \/ ClickNewDraft
    \/ TimerFires
    \/ FeedAnswers
    \/ FeedFails

Spec == Init /\ [][Next]_vars

(***************************************************************************)
(* The App's file handling alone, under every file of LoadResults.         *)
(***************************************************************************)
ClickLoadAnyCsv ==
    /\ \E result \in LoadResults : handleFileSelect(result)
    /\ UNCHANGED <<engineVars, fetchHistory, nameKey>>

NextLoad ==
    \/ ClickLoadAnyCsv
    \/ ChooseSavedCsv
    \/ ClickDeleteCsv

SpecLoad == Init /\ [][NextLoad]_vars

(***************************************************************************)
(* The service under a caller that starts and stops it at will, with the   *)
(* App's callbacks and the board of boardCsv loaded.                       *)
(***************************************************************************)
callStartPolling(draftId, pollIntervalMs, rookiePickMode, leagueSize) ==
    LET w == startPolling(world, draftId, pollIntervalMs, rookiePickMode, leagueSize)
    IN  /\ lastOp' = op("startPolling")
        /\ svc' = w.svc
        /\ timers' = w.timers
        /\ inflight' = w.inflight
        /\ UNCHANGED <<rankings, fileName, storedCSVs, selectedCSVId, syncStatus,
                       draftPicks, lastLog>>

callStopPolling ==
    /\ lastOp' = op("stopPolling")
    /\ svc' = stopPolling(world).svc
    /\ timers' = stopPolling(world).timers
    /\ inflight' = stopPolling(world).inflight
    /\ UNCHANGED <<rankings, fileName, storedCSVs, selectedCSVId, syncStatus,
                   draftPicks, lastLog>>

InitService ==
    /\ svc = newService
    /\ timers = {}
    /\ inflight = <<>>
    /\ rankings = parseTable[boardCsv].rows
    /\ fileName = "board.csv"
    /\ storedCSVs = <<[id |-> "c1", name |-> "board.csv", content |-> boardCsv]>>
    /\ selectedCSVId = "c1"
    /\ syncStatus = initialSyncStatus
    /\ draftPicks = <<>>
    /\ lastLog = logEntry("success", "Loaded players from CSV",
                          Len(parseTable[boardCsv].rows), <<>>, "")
    /\ lastOp = [name |-> "handleFileSelect", timerBefore |-> Null,
                 calls |-> <<>>, body |-> <<>>, rankingsBefore |-> <<>>]
    /\ lineup = Idle /\ player = Idle /\ standings = Idle /\ rtm = Idle
    /\ fetchHistory = noHistory
    /\ nameKey = Idle

CallStart ==
    /\ Len(inflight) < MaxInFlight
    /\ Cardinality(timers) < Cardinality(TimerIds)
    /\ \E a \in StartArguments :
           callStartPolling(a.draftId, a.pollIntervalMs, a.rookiePickMode,
                            a.leagueSize)
    /\ UNCHANGED <<engineVars, fetchHistory, nameKey>>

CallStop ==
    /\ callStopPolling
    /\ UNCHANGED <<engineVars, fetchHistory, nameKey>>

NextService ==
    \/ CallStart
    \/ CallStop
    \/ TimerFires
    \/ FeedAnswers
    \/ FeedFails

SpecService == InitService /\ [][NextService]_vars

(***************************************************************************)
(* The poll cycle over every listing of the feed: the service polls one    *)
(* draft, under each rookie-pick setting.                                  *)
(***************************************************************************)
StartDraft ==
    /\ Len(inflight) < MaxInFlight
    /\ \E rookiePickMode \in BOOLEAN : \E leagueSize \in LeagueSizes :
           callStartPolling("d1", 5000, rookiePickMode, leagueSize)
    /\ UNCHANGED <<engineVars, fetchHistory, nameKey>>

\* pending fetches of one draft are alike: the first of them stands for each
FeedAnswersAny ==
    \E i \in {k \in DOMAIN inflight : \A j \in 1..(k - 1) : inflight[j] # inflight[k]} :
        \E body \in FeedAll : FetchSucceed(i, body)
    /\ UNCHANGED <<engineVars, fetchHistory, nameKey>>

NextFetch ==
    \/ StartDraft
    \/ TimerFires
    \/ FeedAnswersAny
    \/ FeedFails

SpecFetch == InitService /\ [][NextFetch]_vars

(***************************************************************************)
(* The poll cycle against a board whose names the feed spells differently. *)
(***************************************************************************)
InitSpellings ==
    /\ svc = newService
    /\ timers = {}
    /\ inflight = <<>>
    /\ rankings = parseTable[spellingsCsv].rows
    /\ fileName = "spellings.csv"
    /\ storedCSVs = <<[id |-> "c1", name |-> "spellings.csv",
                       content |-> spellingsCsv]>>
    /\ selectedCSVId = "c1"
    /\ syncStatus = initialSyncStatus
    /\ draftPicks = <<>>
    /\ lastLog = logEntry("success", "Loaded players from CSV",
                          Len(parseTable[spellingsCsv].rows), <<>>, "")
    /\ lastOp = [name |-> "handleFileSelect", timerBefore |-> Null,
                 calls |-> <<>>, body |-> <<>>, rankingsBefore |-> <<>>]
    /\ lineup = Idle /\ player = Idle /\ standings = Idle /\ rtm = Idle
    /\ fetchHistory = noHistory
    /\ nameKey = Idle

FeedAnswersSpelled ==
    /\ \E i \in DOMAIN inflight : \E body \in SpellingFeed : FetchSucceed(i, body)
    /\ UNCHANGED <<engineVars, fetchHistory, nameKey>>

NextSpellings ==
    \/ StartDraft
    \/ TimerFires
    \/ FeedAnswersSpelled
    \/ FeedFails

SpecSpellings == InitSpellings /\ [][NextSpellings]_vars

(***************************************************************************)
(* utils/injuryHelpers.ts, position helpers: the Best Ball lineup.  A      *)
(* slot-count map is a function on the slot names it has; slots[slot] || 0 *)
(* reads a missing name as 0.  Projections are whole numbers of points.    *)
(***************************************************************************)
FLEX_MAP ==
    [WRRB |-> {"WR", "RB"},
     WRRBTE |-> {"WR", "RB", "TE"},
     FLEX |-> {"WR", "RB", "TE"},
     SUPER_FLEX |-> {"QB", "WR", "RB", "TE"}]

slotCount(slots, slot) == IF slot \in DOMAIN slots THEN slots[slot] ELSE 0

byProjectionDesc(a, b) == b.proj - a.proj

\* Array.prototype.sort is stable: p goes behind every element that the
\* comparator does not put after it
RECURSIVE insertByProjection(_, _)
insertByProjection(sorted, p) ==
    IF sorted = <<>> THEN <<p>>
    ELSE IF byProjectionDesc(Head(sorted), p) <= 0
         THEN <<Head(sorted)>> \o insertByProjection(Tail(sorted), p)
         ELSE <<p>> \o sorted

RECURSIVE sortedOnto(_, _)
sortedOnto(sorted, pool) ==
    IF pool = <<>> THEN sorted
    ELSE sortedOnto(insertByProjection(sorted, Head(pool)), Tail(pool))

\* the pool left in the order of the candidate array
sortAsListed(pool) == pool

sortByProjectionDesc(pool) == sortedOnto(<<>>, pool)

\* .slice(0, n)
sliceTo(seq, n) == SubSeq(seq, 1, IF n < Len(seq) THEN n ELSE Len(seq))

RECURSIVE sumProj(_)
sumProj(pool) == IF pool = <<>> THEN 0 ELSE Head(pool).proj + sumProj(Tail(pool))

\* takeTop of pickBestBall; acc is [used, total]
takeTop(acc, points, eligiblePositions, n) ==
    LET pool == sliceTo(sortByProjectionDesc(
                    SelectSeq(points, LAMBDA p : /\ p.player_id \notin acc.used
                                                 /\ p.pos \in eligiblePositions)), n)
    IN  [used |-> acc.used \cup {pool[i].player_id : i \in DOMAIN pool},
         total |-> acc.total + sumProj(pool)]

fixedOrder == <<"QB", "RB", "WR", "TE", "K", "DST">>

\* the flex slots filled loosest first
flexOrderLoosestFirst == <<"SUPER_FLEX", "FLEX", "WRRBTE", "WRRB">>

flexOrder == <<"WRRB", "WRRBTE", "FLEX", "SUPER_FLEX">>

RECURSIVE fillFixed(_, _, _, _)
fillFixed(acc, points, slots, order) ==
    IF order = <<>> THEN acc
    ELSE LET n == slotCount(slots, Head(order))
         IN  fillFixed(IF n = 0 THEN acc ELSE takeTop(acc, points, {Head(order)}, n),
                       points, slots, Tail(order))

RECURSIVE fillFlex(_, _, _, _)
fillFlex(acc, points, slots, order) ==
    IF order = <<>> THEN acc
    ELSE LET n == slotCount(slots, Head(order))
         IN  fillFlex(IF n = 0 THEN acc
                      ELSE takeTop(acc, points, FLEX_MAP[Head(order)], n),
                      points, slots, Tail(order))

pickBestBall(points, slots) ==
    fillFlex(fillFixed([used |-> {}, total |-> 0], points, slots, fixedOrder),
             points, slots, flexOrder).total

(***************************************************************************)
(* services/projectionEngine.ts: pickOptimalLineupByValue of the Power     *)
(* Rankings.  acc is [used, totalValue, positionalValues].                 *)
(***************************************************************************)
RECURSIVE insertByValue(_, _)
insertByValue(sorted, p) ==
    IF sorted = <<>> THEN <<p>>
    ELSE IF p.value - Head(sorted).value <= 0
         THEN <<Head(sorted)>> \o insertByValue(Tail(sorted), p)
         ELSE <<p>> \o sorted

RECURSIVE sortedByValueOnto(_, _)
sortedByValueOnto(sorted, pool) ==
    IF pool = <<>> THEN sorted
    ELSE sortedByValueOnto(insertByValue(sorted, Head(pool)), Tail(pool))

sortByValueDesc(pool) == sortedByValueOnto(<<>>, pool)

RECURSIVE addValues(_, _, _)
addValues(acc, pool, counted) ==
    IF pool = <<>> THEN acc
    ELSE LET p == Head(pool)
         IN  addValues(
                 [used |-> acc.used \cup {p.player_id},
                  totalValue |-> acc.totalValue + p.value,
                  positionalValues |->
                      IF p.pos \in counted
                      THEN [acc.positionalValues EXCEPT ![p.pos] = @ + p.value]
                      ELSE acc.positionalValues],
                 Tail(pool), counted)

valuePool(acc, players, eligiblePositions, n) ==
    sliceTo(sortByValueDesc(
        SelectSeq(players, LAMBDA p : /\ p.player_id \notin acc.used
                                      /\ p.pos \in eligiblePositions)), n)

\* takeTop of pickOptimalLineupByValue
takeTopByValue(acc, players, eligiblePositions, n, countTowardPositional) ==
    addValues(acc, valuePool(acc, players, eligiblePositions, n),
              IF countTowardPositional THEN DOMAIN acc.positionalValues ELSE {})

takeTopWithQBTracking(acc, players, eligiblePositions, n) ==
    addValues(acc, valuePool(acc, players, eligiblePositions, n), {"QB"})

\* if (slots[slot]) takeTop(...): the steps in the order the function makes them
RECURSIVE fillByValue(_, _, _, _)
fillByValue(acc, players, slots, order) ==
    IF order = <<>> THEN acc
    ELSE LET slot == Head(order)
             n == slotCount(slots, slot)
             filled ==
                 IF n = 0 THEN acc
                 ELSE IF slot \in {"QB", "RB", "WR", "TE"}
                      THEN takeTopByValue(acc, players, {slot}, n, TRUE)
                 ELSE IF slot = "SUPER_FLEX"
                      THEN takeTopWithQBTracking(acc, players, FLEX_MAP[slot], n)
                 ELSE takeTopByValue(acc, players, FLEX_MAP[slot], n, FALSE)
         IN  fillByValue(filled, players, slots, Tail(order))

valueOrder == <<"QB", "RB", "WR", "TE", "FLEX", "WRRB", "WRRBTE", "SUPER_FLEX">>

pickOptimalLineupByValue(players, slots) ==
    LET acc == fillByValue([used |-> {}, totalValue |-> 0,
                            positionalValues |-> [QB |-> 0, RB |-> 0, WR |-> 0, TE |-> 0]],
                           players, slots, valueOrder)
    IN  [totalValue |-> acc.totalValue, positionalValues |-> acc.positionalValues]

\* countSlots: the starting slots of league.roster_positions, counted by name
RECURSIVE countSlots(_)
countSlots(rosterPositions) ==
    IF rosterPositions = <<>> THEN <<>>
    ELSE LET s == Head(rosterPositions)
             counts == countSlots(Tail(rosterPositions))
         IN  IF s \in {"BN", "IR", "TAXI"} THEN counts
             ELSE [x \in DOMAIN counts \cup {s} |->
                      IF x = s THEN slotCount(counts, s) + 1 ELSE counts[x]]

(***************************************************************************)
(* The lineup optimizers applied to the candidates of one roster.          *)
(***************************************************************************)
Candidate(playerId, pos, proj) == [player_id |-> playerId, pos |-> pos, proj |-> proj]

\* the players a roster holds; two of them are projected the same
CandidatePool ==
    { Candidate("q1", "QB", 6), Candidate("q2", "QB", 3),
      Candidate("r1", "RB", 5), Candidate("r2", "RB", 2),
      Candidate("w1", "WR", 5), Candidate("t1", "TE", 4),
      Candidate("k1", "K", 1), Candidate("d1", "DST", 0) }

\* candidates in one array
MaxCandidates == 3

CandidateLists ==
    UNION { {points \in [1..n -> CandidatePool] :
                \A i, j \in 1..n : i # j => points[i] # points[j]} :
            n \in 0..MaxCandidates }

RosterPositions ==
    { <<"QB", "RB", "WR", "TE", "FLEX", "BN", "BN">>,
      <<"FLEX", "WRRB", "BN">>,
      <<"QB", "SUPER_FLEX", "IR">>,
      <<"SUPER_FLEX", "FLEX", "WRRBTE", "WRRB">>,
      <<"RB", "RB", "FLEX", "K", "TAXI">>,
      <<"SUPER_FLEX", "SUPER_FLEX", "WRRBTE">>,
      <<"TE", "DST", "FLEX", "FLEX", "K">>,
      <<"BN", "BN">> }

\* the players array of getPowerRankings for the same candidates: value in
\* place of proj
asPlayers(points) ==
    [i \in DOMAIN points |->
        [player_id |-> points[i].player_id, pos |-> points[i].pos,
         value |-> points[i].proj, name |-> points[i].player_id]]

InitLineup ==
    /\ svc = newService
    /\ timers = {}
    /\ inflight = <<>>
    /\ rankings = <<>>
    /\ fileName = Null
    /\ storedCSVs = <<>>
    /\ selectedCSVId = Null
    /\ syncStatus = initialSyncStatus
    /\ draftPicks = <<>>
    /\ lastLog = noLog
    /\ lastOp = [name |-> "mount", timerBefore |-> Null, calls |-> <<>>,
                 body |-> <<>>, rankingsBefore |-> <<>>]
    /\ player = Idle /\ standings = Idle /\ rtm = Idle
    /\ fetchHistory = noHistory
    /\ nameKey = Idle
    /\ \E points \in CandidateLists : \E rosterPositions \in RosterPositions :
           lineup = [fn |-> "lineup", points |-> points,
                     slots |-> countSlots(rosterPositions), called |-> {},
                     total |-> 0, totalValue |-> 0,
                     positionalValues |-> [QB |-> 0, RB |-> 0, WR |-> 0, TE |-> 0]]

CallPickBestBall ==
    /\ "pickBestBall" \notin lineup.called
    /\ lineup' = [lineup EXCEPT !.called = @ \cup {"pickBestBall"},
                                !.total = pickBestBall(lineup.points, lineup.slots)]
    /\ UNCHANGED <<appVars, fetchHistory, nameKey, player, standings, rtm>>

CallPickOptimalLineupByValue ==
    /\ "pickOptimalLineupByValue" \notin lineup.called
    /\ LET r == pickOptimalLineupByValue(asPlayers(lineup.points), lineup.slots)
       IN  lineup' = [lineup EXCEPT !.called = @ \cup {"pickOptimalLineupByValue"},
                                    !.totalValue = r.totalValue,
                                    !.positionalValues = r.positionalValues]
    /\ UNCHANGED <<appVars, fetchHistory, nameKey, player, standings, rtm>>

NextLineup ==
    \/ CallPickBestBall
    \/ CallPickOptimalLineupByValue

SpecLineup == InitLineup /\ [][NextLineup]_vars

(***************************************************************************)
(* Numbers of the projection engine: fractions [n, d] in lowest terms with *)
(* d > 0, so that 0.15, 0.12 and the like are exact.                       *)
(***************************************************************************)
Abs(x) == IF x < 0 THEN -x ELSE x

RECURSIVE Gcd(_, _)
Gcd(a, b) == IF b = 0 THEN a ELSE Gcd(b, a % b)

Rat(n, d) == LET g == Gcd(Abs(n), d) IN [n |-> n \div g, d |-> d \div g]

Whole(n) == Rat(n, 1)

RatAdd(a, b) == Rat(a.n * b.d + b.n * a.d, a.d * b.d)

RatSub(a, b) == Rat(a.n * b.d - b.n * a.d, a.d * b.d)

RatMul(a, b) == Rat(a.n * b.n, a.d * b.d)

\* a / b for b > 0
RatDiv(a, b) == Rat(a.n * b.d, a.d * b.n)

RatLess(a, b) == a.n * b.d < b.n * a.d

RatLeq(a, b) == a.n * b.d <= b.n * a.d

RatMax(a, b) == IF RatLess(a, b) THEN b ELSE a

RatMin(a, b) == IF RatLess(b, a) THEN b ELSE a

\* Math.round(x * 100) / 100: the nearest hundredth, a half going up
roundHundredths(x) == Rat((2 * 100 * x.n + x.d) \div (2 * x.d), 100)

(***************************************************************************)
(* utils/injuryHelpers.ts and utils/mathHelpers.ts: the lookup tables.     *)
(* A null or undefined injury_status is Null.                              *)
(***************************************************************************)
getInjuryProbability(injuryStatus) ==
    CASE injuryStatus \in {"IR", "Out"} -> Whole(0)
      [] injuryStatus = "Doubtful" -> Rat(15, 100)
      [] injuryStatus = "Questionable" -> Rat(65, 100)
      [] injuryStatus = "Probable" -> Rat(9, 10)
      [] OTHER -> Whole(1)

getInjuryImpact(injuryStatus) ==
    CASE injuryStatus = "Doubtful" -> Rat(6, 10)
      [] injuryStatus = "Questionable" -> Rat(85, 100)
      [] injuryStatus = "Probable" -> Rat(95, 100)
      [] OTHER -> Whole(1)

getPositionAverage(position) ==
    CASE position = "QB" -> Whole(18)
      [] position = "RB" -> Whole(12)
      [] position = "WR" -> Whole(11)
      [] position = "TE" -> Whole(9)
      [] position \in {"K", "DST"} -> Whole(8)
      [] OTHER -> Whole(10)

getSampleSizeConfidence(sampleSize) ==
    IF sampleSize >= 8 THEN Whole(1)
    ELSE IF sampleSize >= 5 THEN Rat(9, 10)
    ELSE IF sampleSize >= 3 THEN Rat(75, 100)
    ELSE IF sampleSize >= 1 THEN Rat(5, 10)
    ELSE Rat(25, 100)

(***************************************************************************)
(* services/projectionEngine.ts: getBestBallProjections, one player of one *)
(* roster in one future week.  feed is the week's projection map entry:    *)
(* [present, value]; history is what the completed weeks gave the player:  *)
(* [avg, trend, games], avg and trend 0 without a scoring game.            *)
(***************************************************************************)
\* sleeperProjectionsByWeek[week]?.[pid] || null is a number
hasSleeperProj(feed) == feed.present /\ feed.value.n # 0

\* the three-way blend of lines 214-230
blendedPoints(feed, history, weeksOut) ==
    LET sleeperProj == feed.value
        historicalAvg == history.avg
        sampleConfidence == getSampleSizeConfidence(history.games)
    IN  IF hasSleeperProj(feed) /\ RatLess(Whole(0), historicalAvg)
        THEN RatAdd(RatAdd(RatMul(RatMul(Rat(35, 100), sampleConfidence), historicalAvg),
                           RatMul(Rat(6, 10), sleeperProj)),
                    RatMul(Rat(5, 100), RatMul(history.trend, Whole(weeksOut))))
        ELSE IF hasSleeperProj(feed) THEN sleeperProj
        ELSE IF RatLess(Whole(0), historicalAvg)
             THEN RatAdd(historicalAvg,
                         RatMul(RatMul(history.trend, Whole(weeksOut)), Rat(2, 10)))
        ELSE Whole(0)

\* projectedPoints + 0.12 * (positionMean - projectedPoints)
regressToPositionMean(projectedPoints, pos) ==
    RatAdd(projectedPoints,
           RatMul(Rat(12, 100), RatSub(getPositionAverage(pos), projectedPoints)))

\* the discount applied to every player, whatever the feed says
injuryDiscountAlways(projectedPoints, feed, injuryStatus) ==
    RatMul(RatMul(projectedPoints, getInjuryProbability(injuryStatus)),
           getInjuryImpact(injuryStatus))

\* lines 235-237
injuryDiscount(projectedPoints, feed, injuryStatus) ==
    LET injuryProb == getInjuryProbability(injuryStatus)
        injuryImpact == getInjuryImpact(injuryStatus)
    IN  IF ~(/\ hasSleeperProj(feed)
             /\ RatLess(Whole(0), feed.value)
             /\ injuryProb = Whole(0))
        THEN RatMul(RatMul(projectedPoints, injuryProb), injuryImpact)
        ELSE projectedPoints

\* the body of the loop over the roster's players: pushed is whether the player
\* is added to points, proj the projection it is added with
projectFutureWeek(meta, feed, history, weeksOut) ==
    IF \/ ~meta.known
       \/ meta.position = Null
       \/ ~meta.active
       \/ meta.onBye
       \/ (getInjuryProbability(meta.injury_status) = Whole(0) /\ ~hasSleeperProj(feed))
    THEN [pushed |-> FALSE, proj |-> Whole(0)]
    ELSE [pushed |-> TRUE,
          proj |-> RatMax(Whole(0),
                          injuryDiscount(
                              regressToPositionMean(
                                  blendedPoints(feed, history, weeksOut),
                                  meta.position),
                              feed, meta.injury_status))]

(***************************************************************************)
(* services/projectionEngine.ts: getPWOPRProjections, the blend of one     *)
(* WR/TE row.  A field that may be null is [present, value].               *)
(***************************************************************************)
\* segment k of the curve: 2k + (wopr - k/10) * 20
RECURSIVE woprSegment(_, _)
woprSegment(wopr, k) ==
    IF k = 10 THEN RatMin(RatAdd(Whole(20), RatMul(RatSub(wopr, Whole(1)), Whole(10))),
                          Whole(30))
    ELSE IF RatLeq(wopr, Rat(k + 1, 10))
         THEN RatAdd(Whole(2 * k), RatMul(RatSub(wopr, Rat(k, 10)), Whole(20)))
    ELSE woprSegment(wopr, k + 1)

mapWoprToPPG(wopr) == woprSegment(wopr, 0)

\* a JavaScript number that is truthy: neither null nor 0
truthy(field) == field.present /\ field.value.n # 0

\* the weighted components pushed, summed
componentSum(r, wopr_ppg, ovr_ppg, prior) ==
    RatAdd(RatAdd(IF truthy(r.fantasyProjection)
                  THEN RatMul(r.fantasyProjection.value, Rat(4, 10)) ELSE Whole(0),
                  IF RatLess(Whole(0), wopr_ppg)
                  THEN RatMul(wopr_ppg, Rat(3, 10)) ELSE Whole(0)),
           RatAdd(IF truthy(ovr_ppg) THEN RatMul(ovr_ppg.value, Rat(2, 10)) ELSE Whole(0),
                  IF truthy(prior) THEN RatMul(prior.value, Rat(1, 10)) ELSE Whole(0)))

componentCount(r, wopr_ppg, ovr_ppg, prior) ==
    Cardinality({c \in {"proj", "wopr", "ovr", "prior"} :
        \/ c = "proj" /\ truthy(r.fantasyProjection)
        \/ c = "wopr" /\ RatLess(Whole(0), wopr_ppg)
        \/ c = "ovr" /\ truthy(ovr_ppg)
        \/ c = "prior" /\ truthy(prior)})

\* 0.4 + (wopr_ppg > 0 ? 0.3 : 0) + (ovr_ppg ? 0.2 : 0) + (prior ? 0.1 : 0)
blendDivisor(r, wopr_ppg, ovr_ppg, prior) ==
    RatAdd(RatAdd(Rat(4, 10),
                  IF RatLess(Whole(0), wopr_ppg) THEN Rat(3, 10) ELSE Whole(0)),
           RatAdd(IF truthy(ovr_ppg) THEN Rat(2, 10) ELSE Whole(0),
                  IF truthy(prior) THEN Rat(1, 10) ELSE Whole(0)))

\* the row's pwopr before the injury adjustment, after it, and as displayed
blendPWOPR(r, injuryStatus) ==
    LET wopr_ppg == mapWoprToPPG(r.wopr)
        ovr_ppg == IF r.overall.present
                   THEN [present |-> TRUE,
                         value |-> RatMul(RatDiv(r.overall.value, Whole(100)), Whole(20))]
                   ELSE [present |-> FALSE, value |-> Whole(0)]
        prior == IF r.priorYearPPG.present /\ RatLess(Whole(0), r.priorYearPPG.value)
                 THEN r.priorYearPPG
                 ELSE [present |-> FALSE, value |-> Whole(0)]
        blended == IF componentCount(r, wopr_ppg, ovr_ppg, prior) > 0
                   THEN RatDiv(componentSum(r, wopr_ppg, ovr_ppg, prior),
                               blendDivisor(r, wopr_ppg, ovr_ppg, prior))
                   ELSE wopr_ppg
        pwopr == RatMul(RatMul(blended, getInjuryProbability(injuryStatus)),
                        getInjuryImpact(injuryStatus))
    IN  [wopr_ppg |-> wopr_ppg, blended |-> blended, pwopr |-> pwopr,
         shown |-> roundHundredths(pwopr)]

(***************************************************************************)
(* The players the projections are checked on.                             *)
(***************************************************************************)
Absent == [present |-> FALSE, value |-> Whole(0)]

Given(x) == [present |-> TRUE, value |-> x]

InjuryStatuses == {Null, "IR", "Out", "Doubtful", "Questionable", "Probable", "PUP"}

\* what the projection feed holds for the player in the week
Feeds == {Absent, Given(Whole(0)), Given(Whole(10)), Given(Rat(45, 10)), Given(Whole(-2))}

\* [avg, trend, games] of the completed weeks: no scoring game gives 0, 0, 0
Histories ==
    {[avg |-> Whole(0), trend |-> Whole(0), games |-> 0],
     [avg |-> Whole(8), trend |-> Whole(0), games |-> 1],
     [avg |-> Rat(125, 10), trend |-> Whole(-1), games |-> 4],
     [avg |-> Whole(20), trend |-> Rat(3, 2), games |-> 9]}

Metas ==
    {[known |-> k, position |-> p, active |-> a, onBye |-> b, injury_status |-> s] :
        k \in BOOLEAN, p \in {Null, "QB", "WR", "K", "LB"}, a \in BOOLEAN,
        b \in BOOLEAN, s \in InjuryStatuses}

FutureWeeksOut == {1, 3}

Woprs == {Whole(0), Rat(5, 100), Rat(3, 10), Rat(55, 100), Whole(1), Rat(12, 10), Whole(3)}

PwoprRows ==
    {[wopr |-> w, overall |-> o, priorYearPPG |-> p, fantasyProjection |-> f] :
        w \in Woprs,
        o \in {Absent, Given(Whole(0)), Given(Whole(80))},
        p \in {Absent, Given(Whole(0)), Given(Whole(9))},
        f \in {Absent, Given(Whole(0)), Given(Whole(12))}}

InitProjection ==
    /\ svc = newService
    /\ timers = {}
    /\ inflight = <<>>
    /\ rankings = <<>>
    /\ fileName = Null
    /\ storedCSVs = <<>>
    /\ selectedCSVId = Null
    /\ syncStatus = initialSyncStatus
    /\ draftPicks = <<>>
    /\ lastLog = noLog
    /\ lastOp = [name |-> "mount", timerBefore |-> Null, calls |-> <<>>,
                 body |-> <<>>, rankingsBefore |-> <<>>]
    /\ lineup = Idle
    /\ standings = Idle
    /\ rtm = Idle
    /\ fetchHistory = noHistory
    /\ nameKey = Idle
    /\ \/ \E m \in Metas, f \in Feeds, h \in Histories, w \in FutureWeeksOut :
              player = [fn |-> "futureWeek", meta |-> m, feed |-> f, history |-> h,
                        weeksOut |-> w, done |-> FALSE]
       \/ \E r \in PwoprRows, s \in InjuryStatuses :
              player = [fn |-> "pwopr", row |-> r, injury_status |-> s, done |-> FALSE]

\* getBestBallProjections reaches the player in the future week
ProjectFutureWeek ==
    /\ player.fn = "futureWeek"
    /\ ~player.done
    /\ player' = [fn |-> "futureWeek", meta |-> player.meta, feed |-> player.feed,
                  history |-> player.history, weeksOut |-> player.weeksOut,
                  done |-> TRUE,
                  out |-> projectFutureWeek(player.meta, player.feed, player.history,
                                            player.weeksOut)]
    /\ UNCHANGED <<appVars, fetchHistory, nameKey, lineup, standings, rtm>>

\* getPWOPRProjections maps the row
BlendPWOPR ==
    /\ player.fn = "pwopr"
    /\ ~player.done
    /\ player' = [fn |-> "pwopr", row |-> player.row,
                  injury_status |-> player.injury_status, done |-> TRUE,
                  out |-> blendPWOPR(player.row, player.injury_status)]
    /\ UNCHANGED <<appVars, fetchHistory, nameKey, lineup, standings, rtm>>

NextProjection == ProjectFutureWeek \/ BlendPWOPR

SpecProjection == InitProjection /\ [][NextProjection]_vars

(***************************************************************************)
(* services/projectionEngine.ts: getBestBallProjections, the final         *)
(* standings.  A roster comes with its settings (fpts, fpts_decimal, given *)
(* FALSE when the league sends none) and the totals the weeks accumulated. *)
(***************************************************************************)
PlayoffSpots == 6

\* (r.settings?.fpts || 0) + (r.settings?.fpts_decimal || 0) / 100
actualPF(settings) ==
    IF ~settings.given THEN Whole(0)
    ELSE RatAdd(Whole(settings.fpts), Rat(settings.fpts_decimal, 100))

rosterRecord(r) ==
    [rosterId |-> r.roster_id,
     ytdPoints |-> r.seasonTotal,
     projectedPoints |-> RatSub(r.projectedTotal, r.seasonTotal),
     totalPoints |-> r.projectedTotal,
     actualPF |-> actualPF(r.settings),
     rank |-> 0]

RECURSIVE mapRecords(_)
mapRecords(rosters) ==
    IF rosters = <<>> THEN <<>>
    ELSE <<rosterRecord(Head(rosters))>> \o mapRecords(Tail(rosters))

\* (a, b) => b.actualPF - a.actualPF
byActualPFDesc(a, b) == RatSub(b.actualPF, a.actualPF)

\* (a, b) => a.totalPoints - b.totalPoints
byTotalPointsAsc(a, b) == RatSub(a.totalPoints, b.totalPoints)

compareBy(order, a, b) ==
    IF order = "actualPF" THEN byActualPFDesc(a, b) ELSE byTotalPointsAsc(a, b)

\* the stable Array.prototype.sort under either comparator
RECURSIVE insertRecord(_, _, _)
insertRecord(order, sorted, r) ==
    IF sorted = <<>> THEN <<r>>
    ELSE IF compareBy(order, Head(sorted), r).n <= 0
         THEN <<Head(sorted)>> \o insertRecord(order, Tail(sorted), r)
         ELSE <<r>> \o sorted

RECURSIVE sortRecordsOnto(_, _, _)
sortRecordsOnto(order, sorted, records) ==
    IF records = <<>> THEN sorted
    ELSE sortRecordsOnto(order, insertRecord(order, sorted, Head(records)), Tail(records))

sortRecords(order, records) == sortRecordsOnto(order, <<>>, records)

playoffTeams(rosterRecords) ==
    LET byActualPF == sortRecords("actualPF", rosterRecords)
    IN  {byActualPF[i].rosterId : i \in 1..(IF PlayoffSpots < Len(byActualPF)
                                            THEN PlayoffSpots ELSE Len(byActualPF))}

\* the playoff teams put in front
combinePlayoffFirst(nonPlayoff, playoff) == playoff \o nonPlayoff

\* [...nonPlayoff, ...playoff]
combine(nonPlayoff, playoff) == nonPlayoff \o playoff

standingsOf(rosters) ==
    LET rosterRecords == mapRecords(rosters)
        teams == playoffTeams(rosterRecords)
        inPlayoffs(r) == r.rosterId \in teams
        notInPlayoffs(r) == ~inPlayoffs(r)
        nonPlayoff == sortRecords("totalPoints", SelectSeq(rosterRecords, notInPlayoffs))
        playoff == sortRecords("totalPoints", SelectSeq(rosterRecords, inPlayoffs))
        finalOrder == combine(nonPlayoff, playoff)
    IN  [index \in 1..Len(finalOrder) |->
            [rosterId |-> finalOrder[index].rosterId,
             ytdPoints |-> roundHundredths(finalOrder[index].ytdPoints),
             projectedPoints |-> roundHundredths(finalOrder[index].projectedPoints),
             totalPoints |-> roundHundredths(finalOrder[index].totalPoints),
             rank |-> index,
             draftOrder |-> index]]

\* the seasons a roster can have had: settings, points so far, points in all
RosterSeasons ==
    {[settings |-> [given |-> TRUE, fpts |-> 900, fpts_decimal |-> 50],
      seasonTotal |-> Rat(9005, 10), projectedTotal |-> Rat(1500004, 1000)],
     [settings |-> [given |-> TRUE, fpts |-> 900, fpts_decimal |-> 50],
      seasonTotal |-> Whole(880), projectedTotal |-> Rat(1500001, 1000)],
     [settings |-> [given |-> TRUE, fpts |-> 1100, fpts_decimal |-> 0],
      seasonTotal |-> Whole(1100), projectedTotal |-> Whole(1400)],
     [settings |-> [given |-> FALSE, fpts |-> 0, fpts_decimal |-> 0],
      seasonTotal |-> Whole(0), projectedTotal |-> Whole(300)]}

MaxRosters == 7

\* the league's rosters: roster_id i has season seasons[i]
league(seasons) ==
    [i \in DOMAIN seasons |->
        [roster_id |-> i, settings |-> seasons[i].settings,
         seasonTotal |-> seasons[i].seasonTotal,
         projectedTotal |-> seasons[i].projectedTotal]]

InitStandings ==
    /\ svc = newService
    /\ timers = {}
    /\ inflight = <<>>
    /\ rankings = <<>>
    /\ fileName = Null
    /\ storedCSVs = <<>>
    /\ selectedCSVId = Null
    /\ syncStatus = initialSyncStatus
    /\ draftPicks = <<>>
    /\ lastLog = noLog
    /\ lastOp = [name |-> "mount", timerBefore |-> Null, calls |-> <<>>,
                 body |-> <<>>, rankingsBefore |-> <<>>]
    /\ lineup = Idle /\ player = Idle /\ rtm = Idle
    /\ fetchHistory = noHistory
    /\ nameKey = Idle
    /\ \E n \in 1..MaxRosters : \E seasons \in [1..n -> RosterSeasons] :
           standings = [fn |-> "standings", rosters |-> league(seasons),
                        done |-> FALSE, out |-> <<>>]

\* getBestBallProjections returns
ReturnStandings ==
    /\ standings.fn = "standings"
    /\ ~standings.done
    /\ standings' = [standings EXCEPT !.done = TRUE, !.out = standingsOf(standings.rosters)]
    /\ UNCHANGED <<appVars, fetchHistory, nameKey, lineup, player, rtm>>

NextStandings == ReturnStandings

SpecStandings == InitStandings /\ [][NextStandings]_vars

(***************************************************************************)
(* services/rtmDataManager.ts.  localStorage is [data, timestamp], each a  *)
(* function of the week: data[week] names the array stored under           *)
(* rtm_data_week_<week> (Null when the key is absent), timestamp[week] is  *)
(* the hour stored under rtm_cache_timestamp_<week> (NoTimestamp when the  *)
(* key is absent).  Time is counted in hours.  An array is named by the    *)
(* response that brought it; JSON.stringify and JSON.parse keep the rows   *)
(* of an array that came out of response.json().                          *)
(***************************************************************************)
CACHE_MAX_AGE_HOURS == 24

DEFAULT_CONFIG ==
    [autoFetch |-> TRUE, maxCacheAgeHours |-> CACHE_MAX_AGE_HOURS, saveToCache |-> TRUE]

NoTimestamp == -1

RtmWeeks == {1, 2}

\* the rows of the arrays the remote can send, each row the set of its fields
ArrayRows ==
    [listA |-> << {"full_nm", "tm", "overall"}, {"full_nm", "tm", "overall"} >>,
     listB |-> << {"full_nm", "tm", "overall", "pos"}, {"full_nm"} >>,
     noRows |-> << >>,
     noOverall |-> << {"full_nm", "tm"}, {"full_nm", "tm", "overall"} >>]

\* what the remote can do: answer 200 with an array, answer 200 with JSON that
\* is no array, answer with an error status, or not answer
Responses ==
    {[ok |-> TRUE, isArray |-> TRUE, data |-> d] : d \in DOMAIN ArrayRows}
    \cup {[ok |-> TRUE, isArray |-> FALSE, data |-> Null],
          [ok |-> FALSE, isArray |-> FALSE, data |-> Null]}

isCacheStale(store, now, week, maxAgeHours) ==
    IF store.timestamp[week] = NoTimestamp THEN TRUE
    ELSE now - store.timestamp[week] > maxAgeHours

getCachedData(store, week) == store.data[week]

\* written is how far localStorage.setItem got before it threw: 2 both keys,
\* 1 the data key only, 0 neither
saveToCache(store, now, data, week, written) ==
    [data |-> IF written >= 1 THEN [store.data EXCEPT ![week] = data] ELSE store.data,
     timestamp |-> IF written >= 2 THEN [store.timestamp EXCEPT ![week] = now]
                   ELSE store.timestamp]

\* [threw, data]
fetchFromRemote(response) ==
    IF ~response.ok \/ ~response.isArray THEN [threw |-> TRUE, data |-> Null]
    ELSE [threw |-> FALSE, data |-> response.data]

validateRTMData(data) ==
    /\ ArrayRows[data] # <<>>
    /\ {"full_nm", "tm", "overall"} \subseteq ArrayRows[data][1]

\* the catch block that rethrows whatever the cache holds
fallbackNever(cachedData) == [outcome |-> "threw", data |-> Null]

\* the catch block of fetchRTMData
fallback(cachedData) ==
    IF cachedData # Null THEN [outcome |-> "returned", data |-> cachedData]
    ELSE [outcome |-> "threw", data |-> Null]

\* fetchRTMData up to its await: the result, or "pending" with the call's locals
fetchRTMDataBegin(store, now, week, config) ==
    LET mergedConfig == config
        cacheIsStale == isCacheStale(store, now, week, mergedConfig.maxCacheAgeHours)
        cachedData == getCachedData(store, week)
    IN  IF cachedData # Null /\ ~cacheIsStale
        THEN [outcome |-> "returned", data |-> cachedData, cachedData |-> cachedData]
        ELSE IF ~mergedConfig.autoFetch
             THEN IF cachedData # Null
                  THEN [outcome |-> "returned", data |-> cachedData,
                        cachedData |-> cachedData]
                  ELSE [outcome |-> "threw", data |-> Null, cachedData |-> cachedData]
             ELSE [outcome |-> "pending", data |-> Null, cachedData |-> cachedData]

\* fetchRTMData from the remote's answer on: [outcome, data, store]
fetchRTMDataEnd(store, now, call, response, written) ==
    LET fetched == fetchFromRemote(response)
    IN  IF fetched.threw \/ ~validateRTMData(fetched.data)
        THEN [outcome |-> fallback(call.cachedData).outcome,
              data |-> fallback(call.cachedData).data,
              store |-> store]
        ELSE [outcome |-> "returned", data |-> fetched.data,
              store |-> IF call.config.saveToCache
                        THEN saveToCache(store, now, fetched.data, call.week, written)
                        ELSE store]

clearRTMCache(store) ==
    [data |-> [week \in DOMAIN store.data |-> Null],
     timestamp |-> [week \in DOMAIN store.timestamp |-> NoTimestamp]]

\* the configurations fetchRTMData is called with
Configs ==
    {DEFAULT_CONFIG,
     [DEFAULT_CONFIG EXCEPT !.autoFetch = FALSE],
     [DEFAULT_CONFIG EXCEPT !.saveToCache = FALSE],
     [DEFAULT_CONFIG EXCEPT !.maxCacheAgeHours = 12]}

\* the clock moves in steps of ClockStep hours up to MaxClock
ClockStep == 24

MaxClock == 48

\* calls that may wait for the remote at once
MaxPending == 1

InitRtm ==
    /\ svc = newService
    /\ timers = {}
    /\ inflight = <<>>
    /\ rankings = <<>>
    /\ fileName = Null
    /\ storedCSVs = <<>>
    /\ selectedCSVId = Null
    /\ syncStatus = initialSyncStatus
    /\ draftPicks = <<>>
    /\ lastLog = noLog
    /\ lastOp = [name |-> "mount", timerBefore |-> Null, calls |-> <<>>,
                 body |-> <<>>, rankingsBefore |-> <<>>]
    /\ lineup = Idle /\ player = Idle /\ standings = Idle
    /\ fetchHistory = noHistory
    /\ nameKey = Idle
    /\ rtm = [fn |-> "rtm",
              store |-> [data |-> [week \in RtmWeeks |-> Null],
                         timestamp |-> [week \in RtmWeeks |-> NoTimestamp]],
              now |-> 0,
              pending |-> <<>>,
              last |-> [op |-> "none", week |-> 0, autoFetch |-> TRUE,
                        maxCacheAgeHours |-> CACHE_MAX_AGE_HOURS,
                        cachedData |-> Null, failed |-> FALSE, outcome |-> "none",
                        data |-> Null]]

\* a caller calls fetchRTMData(week, config)
CallFetchRTMData ==
    \E week \in RtmWeeks, config \in Configs :
        LET r == fetchRTMDataBegin(rtm.store, rtm.now, week, config)
        IN  /\ r.outcome = "pending" => Len(rtm.pending) < MaxPending
            /\ rtm' = [rtm EXCEPT
                   !.pending = IF r.outcome = "pending"
                               THEN Append(@, [week |-> week, config |-> config,
                                               cachedData |-> r.cachedData])
                               ELSE @,
                   !.last = [op |-> "call", week |-> week,
                             autoFetch |-> config.autoFetch,
                             maxCacheAgeHours |-> config.maxCacheAgeHours,
                             cachedData |-> r.cachedData, failed |-> FALSE,
                             outcome |-> r.outcome, data |-> r.data]]
            /\ UNCHANGED <<appVars, fetchHistory, nameKey, lineup, player, standings>>

\* the remote answers a waiting call, or the request fails
RemoteAnswers ==
    \E i \in DOMAIN rtm.pending, response \in Responses, written \in 0..2 :
        LET call == rtm.pending[i]
            r == fetchRTMDataEnd(rtm.store, rtm.now, call, response, written)
        IN  /\ rtm' = [rtm EXCEPT
                   !.store = r.store,
                   !.pending = RemoveAt(@, i),
                   !.last = [op |-> "answer", week |-> call.week,
                             autoFetch |-> call.config.autoFetch,
                             maxCacheAgeHours |-> call.config.maxCacheAgeHours,
                             cachedData |-> call.cachedData,
                             failed |-> ~response.ok \/ ~response.isArray
                                        \/ ~validateRTMData(response.data),
                             outcome |-> r.outcome, data |-> r.data]]
            /\ UNCHANGED <<appVars, fetchHistory, nameKey, lineup, player, standings>>

ClearCache ==
    /\ rtm' = [rtm EXCEPT !.store = clearRTMCache(@),
                          !.last = [@ EXCEPT !.op = "clear"]]
    /\ UNCHANGED <<appVars, fetchHistory, nameKey, lineup, player, standings>>

HoursPass ==
    /\ rtm.now + ClockStep <= MaxClock
    /\ rtm' = [rtm EXCEPT !.now = @ + ClockStep, !.last = [@ EXCEPT !.op = "clock"]]
    /\ UNCHANGED <<appVars, fetchHistory, nameKey, lineup, player, standings>>

NextRtm ==
    \/ CallFetchRTMData
    \/ RemoteAnswers
    \/ ClearCache
    \/ HoursPass

SpecRtm == InitRtm /\ [][NextRtm]_vars

(***************************************************************************)
(* The service restarted for another draft while answers are outstanding.  *)
(* fetchHistory records what the service does not: for each pending fetch  *)
(* the settings in force when it was sent (started, parallel to inflight), *)
(* for the fetch just answered its draft and those settings, how many of   *)
(* the oldest pending fetches were sent before a fetch whose answer has    *)
(* been merged (overtaken), and whether the fetch just answered was one of *)
(* them (late).                                                            *)
(***************************************************************************)
Restarts ==
    [draftId : {"d1", "d2"}, pollIntervalMs : {5000}, rookiePickMode : BOOLEAN,
     leagueSize : {12}]

\* a step that may send a fetch
sent ==
    [fetchHistory EXCEPT
         !.started = IF Len(inflight') > Len(inflight)
                     THEN Append(@, [rookiePickMode |-> svc'.rookiePickMode,
                                     leagueSize |-> svc'.leagueSize])
                     ELSE @]

\* the step that answers the i-th pending fetch; merged: its picks were delivered
answered(i, merged) ==
    LET rest == IF i <= fetchHistory.overtaken
                THEN fetchHistory.overtaken - 1
                ELSE fetchHistory.overtaken
    IN  [started |-> RemoveAt(fetchHistory.started, i),
         draftId |-> inflight[i].draftId,
         rookiePickMode |-> fetchHistory.started[i].rookiePickMode,
         leagueSize |-> fetchHistory.started[i].leagueSize,
         overtaken |-> IF merged /\ i - 1 > rest THEN i - 1 ELSE rest,
         late |-> i <= fetchHistory.overtaken]

Restart ==
    /\ Len(inflight) < MaxInFlight
    /\ \E a \in Restarts :
           callStartPolling(a.draftId, a.pollIntervalMs, a.rookiePickMode,
                            a.leagueSize)
    /\ fetchHistory' = sent
    /\ UNCHANGED <<engineVars, nameKey>>

TimerFiresInOrder ==
    /\ \E t \in timers : Len(inflight) < MaxInFlight /\ Tick(t)
    /\ fetchHistory' = sent
    /\ UNCHANGED <<engineVars, nameKey>>

AnswerInAnyOrder ==
    /\ \E i \in DOMAIN inflight : \E body \in Feed :
           /\ FetchSucceed(i, body)
           /\ fetchHistory' = answered(i, svc.callbacks # Null)
    /\ UNCHANGED <<engineVars, nameKey>>

FailInAnyOrder ==
    /\ \E i \in DOMAIN inflight :
           /\ FetchFail(i, "Failed to fetch")
           /\ fetchHistory' = answered(i, FALSE)
    /\ UNCHANGED <<engineVars, nameKey>>

NextOrder ==
    \/ Restart
    \/ CallStop
    \/ TimerFiresInOrder
    \/ AnswerInAnyOrder
    \/ FailInAnyOrder

SpecOrder == InitService /\ [][NextOrder]_vars

(***************************************************************************)
(* normalizeName applied to a name and then to its own result.  The names  *)
(* are up to MaxWords words of NameWords, written with capitals and        *)
(* punctuation, and the empty and the blank string.                        *)
(***************************************************************************)
NameWords ==
    { <<"K","e","n">>, <<"O","'","N","e","a","l">>, <<"J","r",".">>,
      <<"I","I","I">>, <<"v">> }

MaxWords == 3

NameInputs ==
    {join(words) : words \in UNION {[1..n -> NameWords] : n \in 1..MaxWords}}
        \cup {<<>>, <<" ", " ">>}

InitNames ==
    /\ svc = newService
    /\ timers = {}
    /\ inflight = <<>>
    /\ rankings = <<>>
    /\ fileName = Null
    /\ storedCSVs = <<>>
    /\ selectedCSVId = Null
    /\ syncStatus = initialSyncStatus
    /\ draftPicks = <<>>
    /\ lastLog = noLog
    /\ lastOp = [name |-> "mount", timerBefore |-> Null, calls |-> <<>>,
                 body |-> <<>>, rankingsBefore |-> <<>>]
    /\ lineup = Idle /\ player = Idle /\ standings = Idle /\ rtm = Idle
    /\ fetchHistory = noHistory
    /\ \E name \in NameInputs :
           nameKey = [fn |-> "normalizeName", name |-> name, calls |-> 0,
                      once |-> <<>>, twice |-> <<>>]

\* normalizeName(name)
NormalizeName ==
    /\ nameKey.fn = "normalizeName"
    /\ nameKey.calls = 0
    /\ nameKey' = [nameKey EXCEPT !.calls = 1, !.once = normalizeName(nameKey.name)]
    /\ UNCHANGED <<appVars, engineVars, fetchHistory>>

\* normalizeName applied to the key it returned
NormalizeKey ==
    /\ nameKey.fn = "normalizeName"
    /\ nameKey.calls = 1
    /\ nameKey' = [nameKey EXCEPT !.calls = 2, !.twice = normalizeName(nameKey.once)]
    /\ UNCHANGED <<appVars, engineVars, fetchHistory>>

NextNames ==
    \/ NormalizeName
    \/ NormalizeKey

SpecNames == InitNames /\ [][NextNames]_vars

(***************************************************************************)
(* getBestBallProjections, lines 93-246: the loop over the completed weeks *)
(* and the loop over the future weeks, for one roster.  A total is kept as *)
(* the weeks whose weekTotal was added to it, in the order of the          *)
(* additions.  absent: the weeks whose matchups do not list the roster.    *)
(***************************************************************************)
WeekCount == 18

\* Array.from({ length: 18 }, (_, i) => i + 1)
WEEKS == [i \in 1..WeekCount |-> i]

\* nflState.week is drawn from 0..MaxNflWeek
MaxNflWeek == 19

AbsentWeeks == {{}, {2}}

InitWeeks ==
    /\ svc = newService
    /\ timers = {}
    /\ inflight = <<>>
    /\ rankings = <<>>
    /\ fileName = Null
    /\ storedCSVs = <<>>
    /\ selectedCSVId = Null
    /\ syncStatus = initialSyncStatus
    /\ draftPicks = <<>>
    /\ lastLog = noLog
    /\ lastOp = [name |-> "mount", timerBefore |-> Null, calls |-> <<>>,
                 body |-> <<>>, rankingsBefore |-> <<>>]
    /\ lineup = Idle /\ player = Idle /\ rtm = Idle
    /\ fetchHistory = noHistory
    /\ nameKey = Idle
    /\ \E week \in 0..MaxNflWeek : \E absent \in AbsentWeeks :
           standings = [fn |-> "weeks", nflWeek |-> week, absent |-> absent,
                        at |-> "completed", index |-> 1, futureWeeks |-> <<>>,
                        seasonTotals |-> <<>>, projectedTotals |-> <<>>]

\* one pass of `for (const week of WEEKS)`, lines 103-146, that does not break
CompletedWeek ==
    /\ standings.fn = "weeks"
    /\ standings.at = "completed"
    /\ standings.index <= Len(WEEKS)
    /\ ~(WEEKS[standings.index] >= standings.nflWeek)
    /\ LET week == WEEKS[standings.index]
       IN  standings' =
               IF week \in standings.absent
               THEN [standings EXCEPT !.index = @ + 1]
               ELSE [standings EXCEPT !.index = @ + 1,
                                      !.seasonTotals = Append(@, week),
                                      !.projectedTotals = Append(@, week)]
    /\ UNCHANGED <<appVars, fetchHistory, nameKey, lineup, player, rtm>>

\* the loop ends, by its break or with WEEKS used up, and line 165 runs
FilterFutureWeeks ==
    /\ standings.fn = "weeks"
    /\ standings.at = "completed"
    /\ IF standings.index > Len(WEEKS)
       THEN TRUE
       ELSE WEEKS[standings.index] >= standings.nflWeek
    /\ LET future(w) == w > standings.nflWeek
       IN  standings' = [standings EXCEPT !.at = "future",
                                          !.futureWeeks = SelectSeq(WEEKS, future)]
    /\ UNCHANGED <<appVars, fetchHistory, nameKey, lineup, player, rtm>>

\* one pass of `for (const week of futureWeeks)`, lines 184-246
FutureWeek ==
    /\ standings.fn = "weeks"
    /\ standings.at = "future"
    /\ standings.futureWeeks # <<>>
    /\ standings' = [standings EXCEPT
                         !.futureWeeks = Tail(@),
                         !.projectedTotals = Append(@, Head(standings.futureWeeks))]
    /\ UNCHANGED <<appVars, fetchHistory, nameKey, lineup, player, rtm>>

\* both loops are through: the totals go into rosterRecords, line 249
TotalsDone ==
    /\ standings.fn = "weeks"
    /\ standings.at = "future"
    /\ standings.futureWeeks = <<>>
    /\ standings' = [standings EXCEPT !.at = "done"]
    /\ UNCHANGED <<appVars, fetchHistory, nameKey, lineup, player, rtm>>

NextWeeks ==
    \/ CompletedWeek
    \/ FilterFutureWeeks
    \/ FutureWeek
    \/ TotalsDone

SpecWeeks == InitWeeks /\ [][NextWeeks]_vars

(***************************************************************************)
(* Properties                                                              *)
(***************************************************************************)
\* the operations that replace the ranking set wholesale
Replacers == {"handleFileSelect", "handleSelectCSV", "handleDeleteCSV", "handleReset"}

\* the taken-name set that the last step's successful cycle delivered
DeliveredNames ==
    cycleTable[svc.rookiePickMode][svc.leagueSize][lastOp.body].pickedNames

\* C1: a row whose manualOverride is true keeps its taken value in every step
\* that is a poll cycle's merge, whatever the taken-set and however often the
\* cycles repeat; the only steps that change it are the user's toggle and the
\* wholesale replacement of the ranking set.
C1_OverrideSurvivesPolls ==
    [][\A k \in DOMAIN rankings :
          rankings[k].manualOverride =>
              \/ /\ k \in DOMAIN rankings'
                 /\ rankings'[k].taken = rankings[k].taken
              \/ /\ lastOp'.name = "handleToggleTaken"
                 /\ rankings'[k].manualOverride
              \/ lastOp'.name \in Replacers]_vars

\* a cycle has just been merged and an overridden row disagrees with the feed
C1_Witness ==
    /\ lastOp.name = "fetchSucceed"
    /\ \E k \in DOMAIN rankings :
           /\ rankings[k].manualOverride
           /\ lastOp.rankingsBefore[k].manualOverride
           /\ rankings[k].taken # (rankings[k].normalizedName \in DeliveredNames)

\* C2: the step that merges the taken-set S of a successful cycle leaves every
\* row that is not overridden with taken = (normalizedName \in S), also a row
\* that was taken and is no longer in S, and changes neither the order of the
\* rows nor any other field.
C2_MergeSetsTaken ==
    [][lastOp'.name = "fetchSucceed" =>
          LET S == cycleTable[svc.rookiePickMode][svc.leagueSize][lastOp'.body].pickedNames
          IN  /\ Len(rankings') = Len(rankings)
              /\ \A k \in DOMAIN rankings :
                     /\ rankings'[k].name = rankings[k].name
                     /\ rankings'[k].tier = rankings[k].tier
                     /\ rankings'[k].position = rankings[k].position
                     /\ rankings'[k].assetType = rankings[k].assetType
                     /\ rankings'[k].normalizedName = rankings[k].normalizedName
                     /\ rankings'[k].manualOverride = rankings[k].manualOverride
                     /\ ~rankings[k].manualOverride =>
                            rankings'[k].taken = (rankings[k].normalizedName \in S)]_vars

\* a merge has just made a taken row available again and left another taken
C2_Witness ==
    /\ lastOp.name = "fetchSucceed"
    /\ \E k \in DOMAIN rankings :
           /\ ~rankings[k].manualOverride
           /\ lastOp.rankingsBefore[k].taken
           /\ ~rankings[k].taken
    /\ \E k \in DOMAIN rankings :
           /\ ~rankings[k].manualOverride
           /\ rankings[k].taken

\* C3: handleToggleTaken(i) inverts row i's taken, sets its manualOverride and
\* leaves the other rows as they are; and a row's manualOverride, once true,
\* stays true in every step but the wholesale replacement of the ranking set.
C3_OverrideIsSticky ==
    [][/\ \A i \in DOMAIN rankings :
              handleToggleTaken(i) =>
                  /\ Len(rankings') = Len(rankings)
                  /\ rankings'[i] = [rankings[i] EXCEPT !.taken = ~rankings[i].taken,
                                                        !.manualOverride = TRUE]
                  /\ \A k \in DOMAIN rankings : k # i => rankings'[k] = rankings[k]
       /\ \A k \in DOMAIN rankings :
              rankings[k].manualOverride =>
                  \/ /\ k \in DOMAIN rankings'
                     /\ rankings'[k].manualOverride
                  \/ lastOp'.name \in Replacers]_vars

\* every row was toggled and then went through a successful poll's merge
C3_Witness ==
    /\ lastOp.name = "fetchSucceed"
    /\ rankings # <<>>
    /\ \A k \in DOMAIN rankings :
           rankings[k].manualOverride /\ lastOp.rankingsBefore[k].manualOverride

\* C4: whatever startPolling and stopPolling calls were made, at most one
\* interval timer is active, it is the one this.intervalId names, and
\* isPolling() is true exactly when it exists.
C4_AtMostOneTimer ==
    /\ Cardinality(timers) <= 1
    /\ isPolling(svc) <=> timers # {}
    /\ \A t \in timers : t.id = svc.intervalId

\* startPolling was called while a timer was active
C4_Witness ==
    /\ lastOp.name = "startPolling"
    /\ lastOp.timerBefore # Null
    /\ Cardinality(timers) = 1

\* C5: startPolling with a non-empty draft id puts exactly one fetch in flight in
\* the step that creates the timer, every tick of the timer starts exactly one
\* more, nothing else starts a fetch, and the timer keeps the interval it was
\* created with: no step but a start or a stop touches it, a failed fetch least
\* of all.
C5_OneFetchPerTick ==
    [][/\ (lastOp'.name = "startPolling" /\ svc'.draftId \notin {Null, ""}) =>
              /\ inflight' = Append(inflight, [draftId |-> svc'.draftId])
              /\ \E t \in timers' :
                     t.id = svc'.intervalId /\ t.ms = svc'.pollIntervalMs
       /\ (lastOp'.name = "tick" /\ svc.draftId \notin {Null, ""}) =>
              inflight' = Append(inflight, [draftId |-> svc.draftId])
       /\ Len(inflight') > Len(inflight) => lastOp'.name \in {"startPolling", "tick"}
       /\ lastOp'.name \notin {"startPolling", "stopPolling"} =>
              timers' = timers /\ svc'.pollIntervalMs = svc.pollIntervalMs]_vars

\* a tick has started a fetch beside the initial one, after a failure was reported
C5_Witness ==
    /\ lastOp.name = "tick"
    /\ Len(inflight) = 2
    /\ syncStatus.error # Null
    /\ \E t \in timers : t.ms = 1000

\* C6: stopPolling with no timer active changes nothing, stopping twice is
\* stopping once, and while no timer is active only startPolling starts a fetch.
C6_StopIsIdempotent ==
    [][/\ stopPolling(stopPolling(world)) = stopPolling(world)
       /\ ~isPolling(stopPolling(world).svc)
       /\ stopPolling(world).timers = {}
       /\ (lastOp'.name = "stopPolling" /\ ~isPolling(svc)) =>
              UNCHANGED <<svc, timers, inflight, rankings, syncStatus, draftPicks>>
       /\ (~isPolling(svc) /\ Len(inflight') > Len(inflight)) =>
              lastOp'.name = "startPolling"]_vars

\* stopPolling was called with no timer active while a fetch was pending
C6_Witness ==
    /\ lastOp.name = "stopPolling"
    /\ lastOp.timerBefore = Null
    /\ inflight # <<>>

\* C7: the step in which a fetch fails invokes on-error once, with a message,
\* and no other callback; the ranking rows, the pick list, lastSync, picksCount
\* and the polling flag keep their values, the service and its timer are as
\* before, and the timer's next tick is able to fetch again.
C7_FailureKeepsState ==
    [][lastOp'.name = "fetchFail" =>
          /\ lastOp'.calls = <<"onError">>
          /\ syncStatus'.error \in FailureMessages
          /\ lastLog'.message = "Sync error" /\ lastLog'.text = syncStatus'.error
          /\ rankings' = rankings
          /\ draftPicks' = draftPicks
          /\ syncStatus'.lastSync = syncStatus.lastSync
          /\ syncStatus'.picksCount = syncStatus.picksCount
          /\ syncStatus'.isPolling = syncStatus.isPolling
          /\ svc' = svc
          /\ timers' = timers
          /\ Len(inflight') = Len(inflight) - 1
          /\ \A t \in timers' :
                 fetchPicks([svc |-> svc', timers |-> timers',
                             inflight |-> inflight']).inflight
                     = Append(inflight', [draftId |-> svc'.draftId])]_vars

\* a fetch has failed after an earlier cycle delivered picks, the timer active
C7_Witness ==
    /\ lastOp.name = "fetchFail"
    /\ syncStatus.lastSync # Null
    /\ syncStatus.picksCount > 0
    /\ draftPicks # <<>>
    /\ \E k \in DOMAIN rankings : rankings[k].taken /\ ~rankings[k].manualOverride
    /\ isPolling(svc)

\* two listings of the same picks
SamePicks(b1, b2) == Len(b1) = Len(b2) /\ Range(b1) = Range(b2)

\* C8: whichever way the feed lists the picks of a snapshot (their pick_no
\* distinct), the cycle delivers the same taken-name set and the same DraftPick
\* list, in ascending pickNo, the synthesized rookie-pick names included.
C8_ListingOrderIsIrrelevant ==
    lastOp.name = "fetchSucceed" =>
        \A other \in FeedAll :
            SamePicks(lastOp.body, other) =>
                LET r == cycleTable[svc.rookiePickMode][svc.leagueSize][other]
                IN  /\ r.pickedNames = DeliveredNames
                    /\ r.draftPicks = draftPicks
                    /\ \A i, j \in DOMAIN draftPicks :
                           i < j => draftPicks[i].pickNo < draftPicks[j].pickNo
                    /\ \A k \in DOMAIN rankings :
                           rankings[k].taken =
                               (rankings[k].normalizedName \in r.pickedNames)

\* in rookie-pick mode the feed listed two kickers with the later one first
C8_Witness ==
    /\ lastOp.name = "fetchSucceed"
    /\ svc.rookiePickMode
    /\ \E i, j \in DOMAIN lastOp.body :
           /\ i < j
           /\ lastOp.body[i].pick_no > lastOp.body[j].pick_no
           /\ toUpperCase(lastOp.body[i].position) = <<"K">>
           /\ toUpperCase(lastOp.body[j].position) = <<"K">>
    /\ Len(draftPicks) >= 2

\* the claims' arithmetic: ceil(k / L), ((k - 1) mod L) + 1, two digits
ClaimRound(k, L) == CHOOSE r \in 1..k : (r - 1) * L < k /\ k <= r * L

ClaimPickInRound(k, L) == ((k - 1) % L) + 1

TwoDigits(n) == <<DigitChars[(n \div 10) + 1], DigitChars[(n % 10) + 1]>>

ClaimRookieName(k, L) ==
    <<"2","0","2","6"," ">> \o numberToString(ClaimRound(k, L)) \o <<".">>
        \o TwoDigits(ClaimPickInRound(k, L))

ClaimPickDisplay(pickNo, L) ==
    numberToString(ClaimRound(pickNo, L)) \o <<".">>
        \o TwoDigits(ClaimPickInRound(pickNo, L))

IsKicker(p) == toUpperCase(p.position) = <<"K">>

\* p's place among the kickers of body, counted in ascending pick_no
KickerRank(body, p) ==
    Cardinality({q \in Range(body) : IsKicker(q) /\ q.pick_no <= p.pick_no})

\* the name C9 gives to pick p of body, and the key it adds to the taken-set
ClaimedPlayerName(body, p, rookiePickMode, L) ==
    IF rookiePickMode /\ IsKicker(p)
    THEN ClaimRookieName(KickerRank(body, p), L)
    ELSE extractPlayerName(p)

ClaimedKey(body, p, rookiePickMode, L) ==
    IF rookiePickMode /\ IsKicker(p)
    THEN normalizeName(ClaimRookieName(KickerRank(body, p), L))
    ELSE applyAlias(normalizeName(extractPlayerName(p)))

claimTable ==
    [body \in FeedAll, rookiePickMode \in BOOLEAN, L \in LeagueSizes |->
        LET named == {p \in Range(body) :
                         ClaimedPlayerName(body, p, rookiePickMode, L) # <<>>}
        IN  [keys |-> {ClaimedKey(body, p, rookiePickMode, L) : p \in named},
             players |-> {<<p.pick_no, ClaimedPlayerName(body, p, rookiePickMode, L)>> :
                             p \in named}]] @@ <<>>

RowTaken(name) ==
    \E k \in DOMAIN rankings : rankings[k].name = name /\ rankings[k].taken

\* C9: in rookie-pick mode the k-th kicker in ascending pick_no stands for the
\* rookie pick "2026 <ceil(k/L)>.<((k-1) mod L)+1, two digits>" and is not looked
\* up by its player name; with the mode off a kicker is looked up by its player
\* name like any other pick.  With L = 12 the 13th kicker is "2026 2.01".
C9_KickersAreRookiePicks ==
    lastOp.name = "fetchSucceed" =>
        LET claimed == claimTable[lastOp.body, svc.rookiePickMode, svc.leagueSize]
        IN  /\ DeliveredNames = claimed.keys
            /\ {<<draftPicks[j].pickNo, draftPicks[j].playerName>> :
                    j \in DOMAIN draftPicks} = claimed.players
            /\ \A k \in DOMAIN rankings :
                   rankings[k].taken = (rankings[k].normalizedName \in claimed.keys)
            /\ (SamePicks(lastOp.body, thirteenKickers) /\ svc.rookiePickMode
                    /\ svc.leagueSize = 12) =>
                   /\ draftPicks[14].playerName = <<"2","0","2","6"," ","2",".","0","1">>
                   /\ RowTaken(<<"2","0","2","6"," ","2",".","0","1">>)
                   /\ ~RowTaken(<<"H","a","r","r","i","s","o","n"," ",
                                  "B","u","t","k","e","r">>)
            /\ (SamePicks(lastOp.body, thirteenKickers) /\ ~svc.rookiePickMode) =>
                   /\ ~RowTaken(<<"2","0","2","6"," ","2",".","0","1">>)
                   /\ RowTaken(<<"H","a","r","r","i","s","o","n"," ",
                                 "B","u","t","k","e","r">>)

\* thirteen kickers, listed last pick first, were merged with 12 teams
C9_Witness ==
    /\ lastOp.name = "fetchSucceed"
    /\ lastOp.body = Reverse(thirteenKickers)
    /\ svc.rookiePickMode
    /\ svc.leagueSize = 12
    /\ RowTaken(<<"2","0","2","6"," ","2",".","0","1">>)

\* C10: every delivered DraftPick with pickNo >= 1 shows
\* "<ceil(pickNo/L)>.<((pickNo-1) mod L)+1, two digits>"; the snapshot of the one
\* pick Bijan Robinson, pick_no 1, with 12 teams gives "1.01" and puts
\* "bijan robinson" in the taken-set.
C10_PickDisplay ==
    lastOp.name = "fetchSucceed" =>
        /\ \A j \in DOMAIN draftPicks :
               draftPicks[j].pickNo >= 1 =>
                   draftPicks[j].pickDisplay =
                       ClaimPickDisplay(draftPicks[j].pickNo, svc.leagueSize)
        /\ (lastOp.body = <<scenarioPick>> /\ svc.leagueSize = 12) =>
               /\ Len(draftPicks) = 1
               /\ draftPicks[1].pickDisplay = <<"1",".","0","1">>
               /\ <<"b","i","j","a","n"," ","r","o","b","i","n","s","o","n">>
                      \in DeliveredNames
               /\ RowTaken(<<"B","i","j","a","n"," ","R","o","b","i","n","s","o","n">>)

\* the one-pick snapshot was merged with 12 teams
C10_Witness ==
    /\ lastOp.name = "fetchSucceed"
    /\ lastOp.body = <<scenarioPick>>
    /\ svc.leagueSize = 12
    /\ draftPicks # <<>>

\* the row of the board with this display name
RowNamed(name) == CHOOSE k \in DOMAIN rankings : rankings[k].name = name

\* C11: "Ja'Marr Chase Jr." and "jamarr chase" normalize to one key, so that
\* when the feed lists the pick as "jamarr chase" the board row written
\* "Ja'Marr Chase Jr." is matched, and the other way round.
C11_SpellingsShareAKey ==
    (lastOp.name = "fetchSucceed" /\ lastOp.body = <<jamarrPick>>) =>
        /\ normalizeName(<<"J","a","'","M","a","r","r"," ","C","h","a","s","e"," ","J","r",".">>) = normalizeName(<<"j","a","m","a","r","r"," ","c","h","a","s","e">>)
        /\ rankings[RowNamed(<<"J","a","'","M","a","r","r"," ","C","h","a","s","e"," ","J","r",".">>)].normalizedName \in DeliveredNames
        /\ rankings[RowNamed(<<"J","a","'","M","a","r","r"," ","C","h","a","s","e"," ","J","r",".">>)].taken

\* no two candidates are projected the same
NoTies(points) ==
    \A i, j \in DOMAIN points : i # j => points[i].proj # points[j].proj

\* C12: with unique player ids and no two equal projections, pickBestBall
\* returns the same total for every order of the candidate array.
C12_BestBallIgnoresOrder ==
    ("pickBestBall" \in lineup.called /\ NoTies(lineup.points)) =>
        \A other \in CandidateLists :
            SamePicks(other, lineup.points) =>
                pickBestBall(other, lineup.slots) = lineup.total

\* three candidates without ties, listed worst first, filled a flex slot
C12_Witness ==
    /\ "pickBestBall" \in lineup.called
    /\ NoTies(lineup.points)
    /\ Len(lineup.points) = 3
    /\ lineup.points[1].proj < lineup.points[2].proj
    /\ lineup.points[2].proj < lineup.points[3].proj
    /\ slotCount(lineup.slots, "FLEX") > 0
    /\ lineup.total > lineup.points[3].proj

\* the slot types of a lineup and who may fill them
ExactSlots == {"QB", "RB", "WR", "TE", "K", "DST"}

SlotTypes == ExactSlots \cup DOMAIN FLEX_MAP

Eligible(p, slot) ==
    \/ slot \in ExactSlots /\ p.pos = slot
    \/ slot \in DOMAIN FLEX_MAP /\ p.pos \in FLEX_MAP[slot]

MaxOf(S) == CHOOSE x \in S : \A y \in S : y <= x

\* the best total over all ways to put distinct candidates into the free slots
RECURSIVE BestAssignment(_, _)
BestAssignment(points, free) ==
    IF points = <<>> THEN 0
    ELSE LET p == Head(points)
             options == {slot \in SlotTypes : free[slot] > 0 /\ Eligible(p, slot)}
         IN  MaxOf({BestAssignment(Tail(points), free)} \cup
                   {p.proj + BestAssignment(Tail(points),
                                            [free EXCEPT ![slot] = @ - 1]) :
                       slot \in options})

\* C13: for unique ids and non-negative projections the total of pickBestBall
\* is the largest total of any assignment of distinct candidates to slots they
\* are eligible for, within each slot type's count.
C13_BestBallIsOptimal ==
    "pickBestBall" \in lineup.called =>
        lineup.total =
            BestAssignment(lineup.points,
                           [slot \in SlotTypes |-> slotCount(lineup.slots, slot)])

\* a running back and a tight end compete for a FLEX and a WRRB slot
C13_Witness ==
    /\ "pickBestBall" \in lineup.called
    /\ slotCount(lineup.slots, "FLEX") > 0
    /\ slotCount(lineup.slots, "WRRB") > 0
    /\ slotCount(lineup.slots, "SUPER_FLEX") = 0
    /\ \E i, j \in DOMAIN lineup.points :
           /\ lineup.points[i].pos = "TE"
           /\ lineup.points[j].pos = "RB"
           /\ Len(lineup.points) = 2
           /\ lineup.total = lineup.points[i].proj + lineup.points[j].proj

\* C14: on the same candidates and slot counts, with value = projection,
\* pickOptimalLineupByValue's totalValue is pickBestBall's total.
C14_ValueLineupMatchesBestBall ==
    {"pickBestBall", "pickOptimalLineupByValue"} \subseteq lineup.called =>
        lineup.totalValue = lineup.total


(***************************************************************************)
(* The injury discount of the Best Ball future-week projection.            *)
(***************************************************************************)
\* the player went through the future-week loop body
FutureWeekDone == player.fn = "futureWeek" /\ player.done

\* the projected points before the injury step
BeforeInjury ==
    regressToPositionMean(blendedPoints(player.feed, player.history, player.weeksOut),
                          player.meta.position)

\* playProbability x performanceImpact applied to x
Discounted(x) ==
    RatMul(x, RatMul(getInjuryProbability(player.meta.injury_status),
                     getInjuryImpact(player.meta.injury_status)))

\* what the player adds to the week's lineup candidates
Contribution == IF player.out.pushed THEN player.out.proj ELSE Whole(0)

PositiveFeed == player.feed.present /\ RatLess(Whole(0), player.feed.value)

CannotPlay == getInjuryProbability(player.meta.injury_status) = Whole(0)

\* C15 as stated: every player with an injury designation has the projected
\* points multiplied by playProbability x performanceImpact, and a player
\* designated IR or Out contributes 0 projected points even when the feed
\* gives a positive projection.
C15_DesignatedAlwaysDiscounted ==
    (FutureWeekDone /\ player.meta.injury_status # Null) =>
        /\ player.out.pushed =>
               player.out.proj = RatMax(Whole(0), Discounted(BeforeInjury))
        /\ player.meta.injury_status \in {"IR", "Out"} => Contribution = Whole(0)

\* C15 amended: the injury discount is skipped exactly for a player whose play
\* probability is 0 (IR or Out) and whose feed projection is present and
\* positive, who then contributes the undiscounted projection; every other
\* player's points are multiplied by playProbability x performanceImpact, and
\* an IR or Out player without a positive feed projection contributes 0.
C15_DiscountSkippedForOutWithProjection ==
    FutureWeekDone =>
        /\ player.out.pushed =>
               player.out.proj =
                   IF CannotPlay /\ PositiveFeed
                   THEN RatMax(Whole(0), BeforeInjury)
                   ELSE RatMax(Whole(0), Discounted(BeforeInjury))
        /\ (CannotPlay /\ ~PositiveFeed) => Contribution = Whole(0)

\* an Out player with a positive feed projection was pushed with points
C15_Witness ==
    /\ FutureWeekDone
    /\ player.meta.injury_status = "Out"
    /\ PositiveFeed
    /\ player.out.pushed
    /\ RatLess(Whole(0), player.out.proj)

(***************************************************************************)
(* The renormalisation of the PWOPR blend.                                 *)
(***************************************************************************)
PwoprDone == player.fn = "pwopr" /\ player.done

\* the components of the row that enter the blend, with value and weight
PresentComponents ==
    LET r == player.row
    IN  (IF truthy(r.fantasyProjection)
         THEN {[value |-> r.fantasyProjection.value, weight |-> Rat(4, 10)]} ELSE {})
        \cup (IF RatLess(Whole(0), player.out.wopr_ppg)
              THEN {[value |-> player.out.wopr_ppg, weight |-> Rat(3, 10)]} ELSE {})
        \cup (IF r.overall.present /\ r.overall.value.n # 0
              THEN {[value |-> RatDiv(r.overall.value, Whole(5)), weight |-> Rat(2, 10)]}
              ELSE {})
        \cup (IF r.priorYearPPG.present /\ RatLess(Whole(0), r.priorYearPPG.value)
              THEN {[value |-> r.priorYearPPG.value, weight |-> Rat(1, 10)]} ELSE {})

RECURSIVE SumWeighted(_)
SumWeighted(S) ==
    IF S = {} THEN Whole(0)
    ELSE LET c == CHOOSE c \in S : TRUE
         IN  RatAdd(RatMul(c.value, c.weight), SumWeighted(S \ {c}))

RECURSIVE SumWeights(_)
SumWeights(S) ==
    IF S = {} THEN Whole(0)
    ELSE LET c == CHOOSE c \in S : TRUE IN RatAdd(c.weight, SumWeights(S \ {c}))

OnlyWoprPresent ==
    /\ ~player.row.fantasyProjection.present
    /\ ~player.row.overall.present
    /\ ~player.row.priorYearPPG.present
    /\ RatLess(Whole(0), player.out.wopr_ppg)

\* C16: the weighted sum of the present components is divided by the sum of
\* the weights of the present components only; with external projection, RTM
\* overall and prior-year PPG absent and wopr-PPG > 0 the pre-injury pwopr is
\* wopr-PPG exactly.
C16_BlendRenormalizedOverPresent ==
    PwoprDone =>
        /\ PresentComponents # {} =>
               player.out.blended =
                   RatDiv(SumWeighted(PresentComponents),
                          SumWeights(PresentComponents))
        /\ OnlyWoprPresent => player.out.blended = player.out.wopr_ppg

(***************************************************************************)
(* The draft order returned by getBestBallProjections.                     *)
(***************************************************************************)
StandingsDone == standings.fn = "standings" /\ standings.done

\* the roster of the league with the given id
RosterOf(id) == CHOOSE r \in {standings.rosters[i] : i \in DOMAIN standings.rosters} :
                    r.roster_id = id

PointsFor(id) == actualPF(RosterOf(id).settings)

TotalOf(id) == RosterOf(id).projectedTotal

\* the number of rosters outside the playoff spots
OutsideCount ==
    IF Len(standings.rosters) > PlayoffSpots
    THEN Len(standings.rosters) - PlayoffSpots ELSE 0

SameGroup(i, j) == (i <= OutsideCount) = (j <= OutsideCount)

HasColumn(headerRow, column) ==
    \E i \in DOMAIN headerRow : trim(toLowerCase(headerRow[i])) = column

\* the content has a header row with name, tier, and pos or position
SuppliesRequiredColumns(content) ==
    /\ content # <<>>
    /\ HasColumn(content[1], <<"n","a","m","e">>)
    /\ HasColumn(content[1], <<"t","i","e","r">>)
    /\ \/ HasColumn(content[1], <<"p","o","s">>)
       \/ HasColumn(content[1], <<"p","o","s","i","t","i","o","n">>)

\* the load of the file raised the error and left the App as it was
LoadFailed(result) ==
    /\ parseCSV(result.content).threw
    /\ parseCSV(result.content).rows = <<>>
    /\ lastLog'.type = "error"
    /\ UNCHANGED <<rankings, fileName, storedCSVs>>

\* C18 as stated: parseCSV raises an error, before producing any row, for
\* every content that does not supply all required columns in a header row,
\* and the failed load leaves rankings, file name and stored CSVs as they were.
C18_EveryIncompleteContentFails ==
    [][\A result \in LoadResults :
           (/\ ~result.cancelled
            /\ handleFileSelect(result)
            /\ ~SuppliesRequiredColumns(result.content)) => LoadFailed(result)]_vars

\* C18 amended: parseCSV raises an error, before producing any row, for every
\* content with at least one non-blank line whose first non-blank line does
\* not supply all required columns, and the failed load leaves rankings, file
\* name and stored CSVs as they were.
C18_IncompleteHeaderFails ==
    [][\A result \in LoadResults :
           (/\ ~result.cancelled
            /\ handleFileSelect(result)
            /\ result.content # <<>>
            /\ ~SuppliesRequiredColumns(result.content)) => LoadFailed(result)]_vars

\* a load failed while rankings and a stored CSV were there to be kept
C18_Witness ==
    /\ lastOp.name = "handleFileSelect"
    /\ lastLog.type = "error"
    /\ rankings # <<>>
    /\ fileName # Null
    /\ storedCSVs # <<>>

(***************************************************************************)
(* The cache policy of fetchRTMData.                                       *)
(***************************************************************************)
\* before the step, the week of the step's call has a cached copy whose age
\* is at most the call's maxCacheAgeHours
FreshCopy ==
    LET week == rtm'.last.week
    IN  /\ rtm.store.data[week] # Null
        /\ rtm.store.timestamp[week] # NoTimestamp
        /\ rtm.now - rtm.store.timestamp[week] <= rtm'.last.maxCacheAgeHours

CallStep == rtm.fn = "rtm" /\ rtm'.last.op = "call" /\ rtm'.last.autoFetch

AnswerStep == rtm.fn = "rtm" /\ rtm'.last.op = "answer"

\* C19: a cached copy of the week that is at most maxCacheAgeHours old is
\* returned without a remote fetch; otherwise a remote fetch is attempted; when
\* it fails or its data fails validation and the call found a cached copy, that
\* copy is returned and the cache entry and timestamp stay as they are; the
\* failure propagates only when the call found no cached copy.
C19_CachePolicy ==
    [][/\ (CallStep /\ FreshCopy) =>
              /\ rtm'.last.outcome = "returned"
              /\ rtm'.last.data = rtm.store.data[rtm'.last.week]
              /\ rtm'.pending = rtm.pending
              /\ rtm'.store = rtm.store
       /\ (CallStep /\ ~FreshCopy) =>
              /\ rtm'.last.outcome = "pending"
              /\ Len(rtm'.pending) = Len(rtm.pending) + 1
       /\ (AnswerStep /\ rtm'.last.failed /\ rtm'.last.cachedData # Null) =>
              /\ rtm'.last.outcome = "returned"
              /\ rtm'.last.data = rtm'.last.cachedData
              /\ rtm'.store = rtm.store
       /\ ((CallStep \/ AnswerStep) /\ rtm'.last.outcome = "threw") =>
              rtm'.last.cachedData = Null]_vars

\* a refresh failed and the stale copy of the week was returned
C19_Witness ==
    /\ rtm.fn = "rtm"
    /\ rtm.last.op = "answer"
    /\ rtm.last.failed
    /\ rtm.last.cachedData # Null
    /\ rtm.last.outcome = "returned"
    /\ rtm.last.data = rtm.last.cachedData

(***************************************************************************)
(* Ticks while a fetch is outstanding.                                     *)
(***************************************************************************)
\* C20: a tick is never skipped because a fetch is outstanding: with a draft id
\* set, a tick that finds fetches in flight adds one more to them, so that two
\* or more are in flight, and only a tick that finds none leaves a single one.
C20_TickDoesNotWaitForFetch ==
    [][(lastOp'.name = "tick" /\ svc.draftId \notin {Null, ""}) =>
          /\ Len(inflight') = Len(inflight) + 1
          /\ SubSeq(inflight', 1, Len(inflight)) = inflight
          /\ (Len(inflight') >= 2) <=> (inflight # <<>>)]_vars

\* a tick found a fetch of the same draft outstanding and started another
C20_Witness ==
    /\ lastOp.name = "tick"
    /\ Len(inflight) >= 2
    /\ \A i \in DOMAIN inflight : inflight[i].draftId = svc.draftId

(***************************************************************************)
(* Responses that arrive after the service was stopped.                    *)
(***************************************************************************)
\* C21: stopPolling removes the timer, so that no tick follows until polling is
\* started again, and leaves the pending fetches and the registered callbacks
\* as they are; a response that arrives afterwards is processed like any
\* other: the cycle derives its outputs and the callbacks are invoked with
\* them, nothing in the service discards it.
C21_StopLeavesFetchRunning ==
    [][/\ lastOp'.name = "stopPolling" =>
              /\ timers' = {}
              /\ inflight' = inflight
              /\ svc'.callbacks = svc.callbacks
       /\ lastOp'.name = "tick" => isPolling(svc)
       /\ (lastOp'.name = "fetchSucceed" /\ svc.callbacks # Null) =>
              LET result == cycleTable[svc.rookiePickMode][svc.leagueSize][lastOp'.body]
              IN  /\ Len(inflight') = Len(inflight) - 1
                  /\ lastOp'.calls = <<"onPicksUpdate", "onDraftPicksUpdate", "onSync">>
                  /\ rankings' = onPicksUpdate(rankings, result.pickedNames)
                  /\ draftPicks' = result.draftPicks
                  /\ syncStatus'.picksCount = Len(lastOp'.body)]_vars

\* the service was started and stopped, and the answer to a fetch that was
\* pending at the stop has since delivered picks through the callbacks
C21_Witness ==
    /\ lastOp.name = "fetchSucceed"
    /\ lastOp.timerBefore = Null
    /\ ~isPolling(svc)
    /\ timers = {}
    /\ lastOp.calls = <<"onPicksUpdate", "onDraftPicksUpdate", "onSync">>
    /\ draftPicks # <<>>
    /\ \E k \in DOMAIN rankings : rankings[k].taken /\ ~lastOp.rankingsBefore[k].taken

(***************************************************************************)
(* The callbacks of a successful cycle.                                    *)
(***************************************************************************)
\* C22: the step in which a fetch is answered with an array invokes
\* onPicksUpdate, onDraftPicksUpdate and onSync, once each and in this order,
\* and not onError: the rows are merged with the cycle's taken-name set, the
\* pick list becomes the cycle's ordered DraftPick list, and the status shows
\* the number of picks in the answer (also those that gave no name) and no
\* error.
C22_SuccessCallbacks ==
    [][(lastOp'.name = "fetchSucceed" /\ svc.callbacks # Null) =>
          LET result == cycleTable[svc.rookiePickMode][svc.leagueSize][lastOp'.body]
          IN  /\ lastOp'.calls = <<"onPicksUpdate", "onDraftPicksUpdate", "onSync">>
              /\ rankings' = onPicksUpdate(rankings, result.pickedNames)
              /\ draftPicks' = result.draftPicks
              /\ syncStatus'.picksCount = Len(lastOp'.body)
              /\ syncStatus'.lastSync # Null
              /\ syncStatus'.error = Null
              /\ syncStatus'.isPolling
              /\ lastLog' = logEntry("success", "Synced picks", Len(lastOp'.body),
                                     <<>>, "")]_vars

\* a cycle has delivered an answer of two picks of which one gave no name
C22_Witness ==
    /\ lastOp.name = "fetchSucceed"
    /\ lastOp.calls = <<"onPicksUpdate", "onDraftPicksUpdate", "onSync">>
    /\ Len(lastOp.body) = 2
    /\ syncStatus.picksCount = 2
    /\ Len(draftPicks) = 1
    /\ syncStatus.error = Null

(***************************************************************************)
(* A cycle's outputs are a function of its snapshot and the two settings.  *)
(***************************************************************************)
\* the entries of a pick list that stand for rookie picks, in order
RookieEntries(picks) ==
    LET isRookie(d) == d.position = <<"P","I","C","K">>
    IN  SelectSeq(picks, isRookie)

\* C23: what a successful cycle delivers is determined by the answer it fetched
\* and by rookiePickMode and leagueSize, whatever was delivered before: the
\* pick list and the count are those derived from this answer alone, every row
\* that is not overridden is taken exactly when this answer names it, every
\* delivered pick is a pick of this answer, the rookie picks are numbered from
\* the first kicker of this answer, and a cycle that follows a cycle with the
\* same answer delivers the same.
C23_CycleDependsOnSnapshotOnly ==
    [][(lastOp'.name = "fetchSucceed" /\ svc.callbacks # Null) =>
          LET result == cycleTable[svc.rookiePickMode][svc.leagueSize][lastOp'.body]
          IN  /\ draftPicks' = result.draftPicks
              /\ syncStatus'.picksCount = result.picksCount
              /\ \A k \in DOMAIN rankings' :
                     ~rankings'[k].manualOverride =>
                         rankings'[k].taken
                             = (rankings'[k].normalizedName \in result.pickedNames)
              /\ \A j \in DOMAIN draftPicks' :
                     \E p \in Range(lastOp'.body) : p.pick_no = draftPicks'[j].pickNo
              /\ \A j \in DOMAIN RookieEntries(draftPicks') :
                     RookieEntries(draftPicks')[j].playerName
                         = rookiePickName(j, svc.leagueSize)
              /\ (lastOp.name = "fetchSucceed" /\ lastOp.body = lastOp'.body) =>
                     /\ draftPicks' = draftPicks
                     /\ rankings' = rankings
                     /\ syncStatus'.picksCount = syncStatus.picksCount]_vars

\* in rookie-pick mode a cycle found Bijan Robinson and "2026 1.01" taken by an
\* earlier cycle; its own answer lists one kicker and not Bijan Robinson
C23_Witness ==
    /\ lastOp.name = "fetchSucceed"
    /\ svc.rookiePickMode
    /\ lastOp.rankingsBefore[1].taken
    /\ lastOp.rankingsBefore[2].taken
    /\ ~RowTaken(<<"B","i","j","a","n"," ","R","o","b","i","n","s","o","n">>)
    /\ RowTaken(<<"2","0","2","6"," ","1",".","0","1">>)
    /\ Len(RookieEntries(draftPicks)) = 1
    /\ Len(draftPicks) = 1

(***************************************************************************)
(* The names of the picks, and the pick list beside the taken-set.         *)
(***************************************************************************)
\* the name the claim gives to a pick outside the rookie-pick remap
StatedName(p) ==
    IF p.first_name # <<>> /\ p.last_name # <<>>
    THEN p.first_name \o <<" ">> \o p.last_name
    ELSE p.player_name

\* C24: in a successful cycle a pick outside the rookie-pick remap is named
\* first_name + " " + last_name when it has both and player_name otherwise; a
\* pick with no such name adds nothing to the taken-set; and a fetched pick has
\* an entry in the DraftPick list exactly when it added a name to the
\* taken-set, the taken-set being the keys of the entries' names.
C24_PickListAgreesWithTakenSet ==
    (lastOp.name = "fetchSucceed" /\ lastOp.calls # <<>>) =>
        LET body == lastOp.body
            remapped(p) == svc.rookiePickMode /\ IsKicker(p)
            contributes(p) == remapped(p) \/ StatedName(p) # <<>>
            entries(p) == {j \in DOMAIN draftPicks : draftPicks[j].pickNo = p.pick_no}
        IN  /\ \A p \in Range(body) :
                   /\ Cardinality(entries(p)) = IF contributes(p) THEN 1 ELSE 0
                   /\ (contributes(p) /\ ~remapped(p)) =>
                          /\ \A j \in entries(p) : draftPicks[j].playerName = StatedName(p)
                          /\ applyAlias(normalizeName(StatedName(p))) \in DeliveredNames
            /\ Len(draftPicks) = Cardinality({p \in Range(body) : contributes(p)})
            /\ DeliveredNames =
                   {applyAlias(normalizeName(draftPicks[j].playerName)) :
                        j \in DOMAIN draftPicks}

\* a cycle with rookie-pick mode off has named one pick by its first and last
\* name and has passed over the other, which has no name field
C24_Witness ==
    /\ lastOp.name = "fetchSucceed"
    /\ ~svc.rookiePickMode
    /\ \E p \in Range(lastOp.body) : StatedName(p) = <<>>
    /\ \E j \in DOMAIN draftPicks :
           draftPicks[j].playerName = <<"B","i","j","a","n"," ","R","o","b","i","n","s","o","n">>
    /\ Len(draftPicks) = Len(lastOp.body) - 1

(***************************************************************************)
(* The alias map's values.                                                 *)
(***************************************************************************)
\* C25: every value of the alias map is canonical, applyAlias(value) =
\* applyAlias(key) for every entry, so that when the board writes a player as
\* the variant and the feed as the canonical form, or the other way round,
\* both get one key: the feed's pick of "DK Metcalf" marks the row
\* "D.K. Metcalf" taken.
C25_AliasValuesAreCanonical ==
    (lastOp.name = "fetchSucceed" /\ metcalfPick \in Range(lastOp.body)) =>
        /\ \A i \in DOMAIN nameAliases :
               applyAlias(nameAliases[i][2]) = applyAlias(nameAliases[i][1])
        /\ RowTaken(<<"D",".","K","."," ","M","e","t","c","a","l","f">>)

(***************************************************************************)
(* The App's polling flag beside the service's timer.                      *)
(***************************************************************************)
\* C26: in every state of the App's session, whatever the order of starts,
\* stops, resets, ticks and answers of the feed, syncStatus.isPolling is true
\* exactly when the service has an active timer; after Stop Polling or New
\* Draft it is false until polling is started again.
C26_PollingFlagMatchesTimer ==
    /\ syncStatus.isPolling <=> isPolling(svc)
    /\ syncStatus.isPolling <=> timers # {}

(***************************************************************************)
(* Answers to fetches that were sent before a restart.                     *)
(***************************************************************************)
\* C27 as stated: once startPolling has been re-issued, every delivery through
\* the callbacks carries picks that were fetched for the service's current
\* draft id and derived with the settings in force when their fetch was sent;
\* no answer to a fetch of the previous configuration is delivered.
C27_OnlyNewConfigurationDelivered ==
    (lastOp.name = "fetchSucceed" /\ lastOp.calls # <<>>) =>
        LET result == cycleTable[fetchHistory.rookiePickMode][fetchHistory.leagueSize][lastOp.body]
        IN  /\ fetchHistory.draftId = svc.draftId
            /\ draftPicks = result.draftPicks
            /\ \A k \in DOMAIN rankings :
                   rankings[k].taken = (rankings[k].normalizedName \in result.pickedNames)

\* C27 amended: once startPolling has been re-issued, every fetch sent from
\* then on requests the new draft id; every answer, whichever draft and
\* settings its fetch was sent under, is delivered through the registered
\* callbacks and derived with the rookiePickMode and leagueSize that are in
\* force when it arrives.
C27_AnswersUseCurrentConfiguration ==
    [][/\ Len(inflight') > Len(inflight) =>
              inflight' = Append(inflight, [draftId |-> svc'.draftId])
       /\ (lastOp'.name = "fetchSucceed" /\ svc.callbacks # Null) =>
              LET result == cycleTable[svc.rookiePickMode][svc.leagueSize][lastOp'.body]
              IN  /\ svc' = svc
                  /\ lastOp'.calls = <<"onPicksUpdate", "onDraftPicksUpdate", "onSync">>
                  /\ draftPicks' = result.draftPicks
                  /\ rankings' = onPicksUpdate(rankings, result.pickedNames)]_vars

\* the answer to a fetch sent for another draft and under the other rookie-pick
\* setting has been delivered, and its kicker was read under the new setting
C27_Witness ==
    /\ lastOp.name = "fetchSucceed"
    /\ lastOp.calls = <<"onPicksUpdate", "onDraftPicksUpdate", "onSync">>
    /\ fetchHistory.draftId # svc.draftId
    /\ fetchHistory.rookiePickMode # svc.rookiePickMode
    /\ draftPicks = cycleTable[svc.rookiePickMode][svc.leagueSize][lastOp.body].draftPicks
    /\ draftPicks # cycleTable[fetchHistory.rookiePickMode][svc.leagueSize][lastOp.body].draftPicks

(***************************************************************************)
(* The order in which snapshots are merged.                                *)
(***************************************************************************)
\* C28 as stated: answers are merged in the order in which their fetches were
\* sent; no answer is merged after the answer to a fetch that was sent later,
\* so that no row which a newer snapshot marked taken is made available again
\* by an older one.
C28_MergedInStartOrder ==
    [][(lastOp'.name = "fetchSucceed" /\ lastOp'.calls # <<>>) =>
          ~fetchHistory'.late]_vars

\* C28 amended: answers are merged in the order in which they arrive, which
\* need not be the order in which their fetches were sent; each one, also the
\* answer to a fetch that a later fetch's answer has overtaken, sets every row
\* that is not overridden from its own snapshot alone, so that a row which a
\* newer snapshot marked taken is made available again by an older snapshot
\* that arrives later and lacks the pick.
C28_MergedInArrivalOrder ==
    [][(lastOp'.name = "fetchSucceed" /\ svc.callbacks # Null) =>
          LET names == cycleTable[svc.rookiePickMode][svc.leagueSize][lastOp'.body].pickedNames
          IN  /\ Len(rankings') = Len(rankings)
              /\ \A k \in DOMAIN rankings :
                     IF rankings[k].manualOverride
                     THEN rankings'[k] = rankings[k]
                     ELSE rankings'[k] =
                              [rankings[k] EXCEPT
                                   !.taken = (rankings[k].normalizedName \in names)]]_vars

\* the answer to a fetch that a later fetch's answer had overtaken has arrived
\* and made available a row that was marked taken
C28_Witness ==
    /\ lastOp.name = "fetchSucceed"
    /\ lastOp.calls # <<>>
    /\ fetchHistory.late
    /\ \E k \in DOMAIN rankings :
           /\ lastOp.rankingsBefore[k].taken
           /\ ~rankings[k].taken
           /\ ~rankings[k].manualOverride

(***************************************************************************)
(* normalizeName applied twice.                                            *)
(***************************************************************************)
\* the last word of a key is one of the suffixes
EndsInSuffix(key) == split(key)[Len(split(key))] \in suffixes

\* a key without its last word
WithoutLastWord(key) == join(SubSeq(split(key), 1, Len(split(key)) - 1))

\* C29 as stated: normalizeName(normalizeName(x)) = normalizeName(x) for every
\* name x, also for a name whose last two words are both suffixes.
C29_NormalizeIsIdempotent ==
    (nameKey.fn = "normalizeName" /\ nameKey.calls = 2) =>
        nameKey.twice = nameKey.once

\* C29 amended: normalizeName(normalizeName(x)) = normalizeName(x) for every
\* name x whose key normalizeName(x) does not end in a suffix, which is every
\* name with at most one suffix at its end; one application removes the last
\* word only, so when the last two words of x are both suffixes the key still
\* ends in one and the second application removes it.
C29_IdempotentUpToOneSuffix ==
    (nameKey.fn = "normalizeName" /\ nameKey.calls = 2) =>
        IF EndsInSuffix(nameKey.once)
        THEN nameKey.twice = WithoutLastWord(nameKey.once)
        ELSE nameKey.twice = nameKey.once

\* "Ken O'Neal III" was normalized and its key, given back, returned unchanged
C29_Witness ==
    /\ nameKey.fn = "normalizeName"
    /\ nameKey.calls = 2
    /\ nameKey.name = <<"K","e","n"," ","O","'","N","e","a","l"," ","I","I","I">>
    /\ nameKey.once = <<"k","e","n"," ","o"," ","n","e","a","l">>
    /\ nameKey.twice = nameKey.once

(***************************************************************************)
(* The weeks that enter a roster's total.                                  *)
(***************************************************************************)
\* how often a week's total was added to a total
TimesAdded(total, week) == Cardinality({i \in DOMAIN total : total[i] = week})

\* C30: when getBestBallProjections has run both loops, whatever the current
\* NFL week is, every week 1..18 has been added to the roster's total exactly
\* once: either as a completed week, which also counts toward the season so
\* far, or as a projected future week; none twice, none left out.
C30_EveryWeekCountedOnce ==
    (standings.fn = "weeks" /\ standings.at = "done") =>
        \A week \in 1..WeekCount :
            /\ TimesAdded(standings.projectedTotals, week) = 1
            /\ TimesAdded(standings.seasonTotals, week) <= 1
====
